---- MODULE Spec2Model ----
(***************************************************************************)
(* State-machine model of vpn-wireguard-manager (src/src/wg_backend):      *)
(* the fleet state and its IP allocator, the safe-apply pipeline and the   *)
(* iptables chain manager.                                                 *)
(*                                                                         *)
(* Text values are modelled by what the code reads out of them:            *)
(*   - an address string "a.b.c.d/p" is a record [txt, ip, plen] with the  *)
(*     32-bit value of a.b.c.d; txt = "cidr" when ipaddress parses it,     *)
(*     "" for the empty string, "junk" for any other text;                 *)
(*   - an opaque key string is a pair <<kind, n>>; None is <<"None", 0>>   *)
(*     and the empty string <<"", 0>>;                                     *)
(*   - a dict is the sequence of its items in insertion order.             *)
(***************************************************************************)
EXTENDS Integers, Sequences, FiniteSets, TLC

VARIABLES
    state,      \* the in-memory GlobalState of the invocation
    alloc,      \* result of the last allocate_ip call (SpecIpam)
    last,       \* outcome of the last add_peer / remove_peer call
    scn,        \* progress through the spec's add/remove scenario (ghost)
    keyCtr,     \* number of keys handed out by the key tool so far
    pure,       \* the last call of a function of the state, and what it returned
    ap,         \* the apply_safe invocations: position, arguments, result
    fs,         \* the files of /etc/wireguard
    etcDir,     \* /etc/wireguard exists
    link,       \* the WireGuard interface exists (ip link show succeeds)
    env,        \* the host of apply: root or not, the binaries on PATH
    clock,      \* datetime.now(), in seconds
    cmds,       \* the interface commands issued so far
    host0,      \* files, directory and interface when apply started (ghost)
    rules,      \* the iptables ruleset: tables, chains, rules
    fwEnv,      \* the host of the firewall manager
    fwLast,     \* the last firewall call and its outcome
    foreign,    \* number of rules other tooling has added so far
    pristine,   \* no other tool touched the ruleset since the first call (ghost)
    cli,        \* the vpn command being run: arguments, position, exit code
    disk,       \* the state file data/state.json
    adders       \* vpn add-peer processes running side by side: position, state in memory

peerVars == <<state, alloc, last, scn, keyCtr, pure>>

applyVars == <<ap, fs, etcDir, link, env, clock, cmds, host0>>

fwVars == <<rules, fwEnv, fwLast, foreign, pristine>>

cliVars == <<cli, disk, adders>>

vars == <<peerVars, applyVars, fwVars, cliVars>>

(***************************************************************************)
(* Bounds of the model                                                     *)
(***************************************************************************)
MaxNames == 3

MaxKeyGens == 6

MaxHostSpan == 5

MaxClock == 2

MaxForeign == 1

MaxRepeat == 2

MaxApplies == 2

MaxCmds == 3

NameList == <<"phone", "laptop", "tablet", "desktop", "tv">>

PeerNames == {NameList[i] : i \in 1..MaxNames}

(***************************************************************************)
(* Addresses (python ipaddress)                                            *)
(***************************************************************************)
IPv4(a, b, c, d) == ((a * 256 + b) * 256 + c) * 256 + d

RECURSIVE Pow2(_)
Pow2(n) == IF n = 0 THEN 1 ELSE 2 * Pow2(n - 1)

Cidr(ip, plen) == [txt |-> "cidr", ip |-> ip, plen |-> plen]

EmptyStr == [txt |-> "", ip |-> 0, plen |-> 0]

JunkStr == [txt |-> "junk", ip |-> 0, plen |-> 0]

None == <<"None", 0>>

EmptyKey == <<"", 0>>

\* ipaddress.ip_interface(s) / ip_address(s.split("/")[0]) succeed
Parses(s) == s.txt = "cidr"

NetSize(net) == Pow2(32 - net.plen)

\* ipaddress.ip_network(s) with strict=True: no host bit may be set
ParsesStrictNetwork(s) == Parses(s) /\ s.ip % NetSize(s) = 0

network_address(net) == net.ip - (net.ip % NetSize(net))

broadcast_address(net) == network_address(net) + NetSize(net) - 1

\* IPv4Network.hosts(): the ascending range [first, last] it iterates
hosts(net) ==
    IF net.plen = 32 THEN [first |-> network_address(net), last |-> network_address(net)]
    ELSE IF net.plen = 31 THEN [first |-> network_address(net), last |-> broadcast_address(net)]
    ELSE [first |-> network_address(net) + 1, last |-> broadcast_address(net) - 1]

\* `addr in net`
InNetwork(ip, net) == network_address(net) <= ip /\ ip <= broadcast_address(net)

(***************************************************************************)
(* Data model (models.py)                                                  *)
(***************************************************************************)
Peer(name, priv, pub, ip, allowed, psk) ==
    [name |-> name, private_key |-> priv, public_key |-> pub, ip |-> ip,
     allowed_ips |-> allowed, preshared_key |-> psk]

ServerState(interface, port, priv, pub, address, endpoint, dns) ==
    [interface |-> interface, listen_port |-> port, private_key |-> priv,
     public_key |-> pub, address |-> address, endpoint |-> endpoint, dns |-> dns]

GlobalState(cidr, server, peers) ==
    [network_cidr |-> cidr, server |-> server, peers |-> peers]

\* no function of the state has been called
NoPure == [op |-> "none"]

DictKeysNone(d) == {}

\* dict helpers: peers is the sequence of items [k, v] in insertion order
DictKeys(d) == {d[i].k : i \in 1..Len(d)}

DictGet(d, key) == (CHOOSE i \in 1..Len(d) : d[i].k = key)

DictVal(d, key) == d[DictGet(d, key)].v

\* d[key] = val
DictSet(d, key, val) ==
    IF key \in DictKeys(d)
    THEN [d EXCEPT ![DictGet(d, key)] = [k |-> key, v |-> val]]
    ELSE Append(d, [k |-> key, v |-> val])

DictDelNoop(d, key) == d

\* del d[key]
DictDel(d, key) == SelectSeq(d, LAMBDA e : e.k # key)

(***************************************************************************)
(* IP allocator (ipam.py)                                                  *)
(***************************************************************************)
\* get_used_ips cannot parse one of the strings it reads
UsedIpsRaises(s) ==
    \/ ~ParsesStrictNetwork(s.network_cidr)
    \/ ~Parses(s.server.address)
    \/ \E i \in 1..Len(s.peers) : ~Parses(s.peers[i].v.ip)

get_used_ips_noserver(s) ==
    {s.peers[i].v.ip.ip : i \in 1..Len(s.peers)}
        \cup {network_address(s.network_cidr), broadcast_address(s.network_cidr)}

get_used_ips_nopeers(s) ==
    {s.server.address.ip}
        \cup {network_address(s.network_cidr), broadcast_address(s.network_cidr)}

get_used_ips(s) ==
    {s.server.address.ip}
        \cup {s.peers[i].v.ip.ip : i \in 1..Len(s.peers)}
        \cup {network_address(s.network_cidr), broadcast_address(s.network_cidr)}

\* for host in net.hosts(): if host not in used: return host   (-1: loop ended)
RECURSIVE ScanHosts(_, _, _)
ScanHosts(h, lastHost, used) ==
    IF h > lastHost THEN -1
    ELSE IF h \notin used THEN h
    ELSE ScanHosts(h + 1, lastHost, used)

AllocResult(ok, err, ip) == [ok |-> ok, err |-> err, ip |-> ip]

NotCalled == AllocResult(FALSE, "not called", EmptyStr)

allocate_ip_wraps_around(s) ==
    IF UsedIpsRaises(s) THEN AllocResult(FALSE, "ValueError", EmptyStr)
    ELSE LET h == hosts(s.network_cidr)
             found == ScanHosts(h.first, h.last, get_used_ips(s))
         IN  AllocResult(TRUE, "", Cidr(IF found = -1 THEN h.first ELSE found, 32))

allocate_ip(s) ==
    IF UsedIpsRaises(s) THEN AllocResult(FALSE, "ValueError", EmptyStr)
    ELSE LET h == hosts(s.network_cidr)
             found == ScanHosts(h.first, h.last, get_used_ips(s))
         IN  IF found = -1
             THEN AllocResult(FALSE, "RuntimeError: No free IP available", EmptyStr)
             ELSE AllocResult(TRUE, "", Cidr(found, 32))

(***************************************************************************)
(* Peer management (wireguard.py) and initialisation (init_server.py)      *)
(***************************************************************************)
KeyTool == {"ok", "genkey_fail", "genpsk_fail"}

OpResult(op, name, ok, err, ip) ==
    [op |-> op, name |-> name, ok |-> ok, err |-> err, ip |-> ip]

\* add_peer: what it leaves in the state, the key counter and what it returns/raises
add_peer(s, name, with_preshared, tool, ctr) ==
    IF name \in DictKeys(s.peers)
    THEN [state |-> s, ctr |-> ctr,
          res |-> OpResult("add", name, FALSE, "ValueError: already exists", EmptyStr)]
    ELSE LET a == allocate_ip(s) IN
         IF ~a.ok
         THEN [state |-> s, ctr |-> ctr, res |-> OpResult("add", name, FALSE, a.err, EmptyStr)]
         ELSE IF tool = "genkey_fail"
         THEN [state |-> s, ctr |-> ctr,
               res |-> OpResult("add", name, FALSE, "CommandError: wg genkey", EmptyStr)]
         ELSE IF with_preshared /\ tool = "genpsk_fail"
         THEN [state |-> s, ctr |-> ctr + 1,
               res |-> OpResult("add", name, FALSE, "CommandError: wg genpsk", EmptyStr)]
         ELSE LET n    == ctr + 1
                  psk  == IF with_preshared THEN <<"psk", n + 1>> ELSE None
                  peer == Peer(name, <<"priv", n>>, <<"pub", n>>, a.ip,
                               <<s.network_cidr>>, psk)
              IN  [state |-> [s EXCEPT !.peers = DictSet(s.peers, name, peer)],
                   ctr   |-> IF with_preshared THEN n + 1 ELSE n,
                   res   |-> OpResult("add", name, TRUE, "", a.ip)]

remove_peer_ignores_missing(s, name) ==
    [state |-> [s EXCEPT !.peers = DictDel(s.peers, name)],
     res |-> OpResult("remove", name, TRUE, "", EmptyStr)]

remove_peer(s, name) ==
    IF name \notin DictKeys(s.peers)
    THEN [state |-> s, res |-> OpResult("remove", name, FALSE, "KeyError", EmptyStr)]
    ELSE [state |-> [s EXCEPT !.peers = DictDel(s.peers, name)],
          res |-> OpResult("remove", name, TRUE, "", EmptyStr)]

DefaultInterface == "wg0"

DefaultListenPort == 51820

\* init_server: the server address is the literal "10.8.0.1/24"
init_server(interface, network_cidr, listen_port, endpoint, dns) ==
    GlobalState(network_cidr,
                ServerState(interface, listen_port, <<"priv", 1>>, <<"pub", 1>>,
                            Cidr(IPv4(10, 8, 0, 1), 24), endpoint, dns),
                <<>>)

\* the networks init_server is called with
InitNetworks ==
    {Cidr(IPv4(10, 8, 0, 0), 24), Cidr(IPv4(10, 8, 0, 0), 29),
     Cidr(IPv4(10, 8, 0, 0), 30), Cidr(IPv4(10, 9, 0, 0), 29)}

\* ghost: how far the run has followed
\*   add phone, add laptop, remove phone, add tablet        (9: left the scenario)
ScenarioStep(n, res) ==
    IF n = 0 /\ res.op = "add" /\ res.name = "phone" /\ res.ok THEN 1
    ELSE IF n = 1 /\ res.op = "add" /\ res.name = "laptop" /\ res.ok THEN 2
    ELSE IF n = 2 /\ res.op = "remove" /\ res.name = "phone" /\ res.ok THEN 3
    ELSE IF n = 3 /\ res.op = "add" /\ res.name = "tablet" /\ res.ok THEN 4
    ELSE 9

\* the parts of the system a specification leaves alone
IdlePeers ==
    /\ state = init_server(DefaultInterface, Cidr(IPv4(10, 8, 0, 0), 24),
                           DefaultListenPort, None, <<>>)
    /\ alloc = NotCalled
    /\ last = OpResult("init", "", TRUE, "", EmptyStr)
    /\ scn = 9
    /\ keyCtr = 1
    /\ pure = NoPure

IdleApply ==
    /\ ap = <<>>
    /\ fs = <<>>
    /\ etcDir = FALSE
    /\ link = FALSE
    /\ env = [root |-> FALSE, bins |-> {}]
    /\ clock = 1
    /\ cmds = <<>>
    /\ host0 = [fs |-> <<>>, etcDir |-> FALSE, link |-> FALSE]

IdleFw ==
    /\ rules = <<>>
    /\ fwEnv = <<>>
    /\ fwLast = <<>>
    /\ foreign = 0
    /\ pristine = TRUE

IdleCli ==
    /\ cli = <<>>
    /\ disk = <<>>
    /\ adders = <<>>

InitPeers ==
    /\ \E net \in InitNetworks :
          state = init_server(DefaultInterface, net, DefaultListenPort, None, <<>>)
    /\ alloc = NotCalled
    /\ last = OpResult("init", "", TRUE, "", EmptyStr)
    /\ scn = 0
    /\ keyCtr = 1
    /\ pure = NoPure
    /\ IdleApply
    /\ IdleFw
    /\ IdleCli

AddPeer(name, with_preshared, tool) ==
    /\ keyCtr + 2 <= MaxKeyGens
    /\ LET r == add_peer(state, name, with_preshared, tool, keyCtr) IN
         /\ state' = r.state
         /\ keyCtr' = r.ctr
         /\ last' = r.res
         /\ scn' = ScenarioStep(scn, r.res)
    /\ UNCHANGED <<alloc, pure, applyVars, fwVars, cliVars>>

RemovePeer(name) ==
    /\ LET r == remove_peer(state, name) IN
         /\ state' = r.state
         /\ last' = r.res
         /\ scn' = ScenarioStep(scn, r.res)
    /\ UNCHANGED <<alloc, keyCtr, pure, applyVars, fwVars, cliVars>>

NextPeers ==
    \/ \E name \in PeerNames, psk \in BOOLEAN, tool \in KeyTool : AddPeer(name, psk, tool)
    \/ \E name \in PeerNames : RemovePeer(name)

SpecPeers == InitPeers /\ [][NextPeers]_vars

(***************************************************************************)
(* allocate_ip as a pure function: inputs drawn from bounded sets          *)
(***************************************************************************)
IpamBase == IPv4(10, 8, 0, 0)

IpamNetworks ==
    {Cidr(IpamBase, 24), Cidr(IpamBase, 29), Cidr(IpamBase, 30), Cidr(IpamBase, 31)}

IpamServers == {Cidr(IpamBase + 1, 24), Cidr(IpamBase + 2, 24)}

IpamPeerAddrs == {Cidr(IpamBase + k, 32) : k \in 0..MaxHostSpan} \cup {Cidr(IpamBase + 2, 24)}

PeersFrom(f) ==
    SelectSeq([i \in 1..MaxNames |->
                 [k |-> NameList[i],
                  v |-> Peer(NameList[i], <<"priv", i + 1>>, <<"pub", i + 1>>,
                             f[NameList[i]], <<Cidr(IpamBase, 24)>>, None)]],
              LAMBDA e : e.v.ip # EmptyStr)

InitIpam ==
    /\ \E net \in IpamNetworks, srv \in IpamServers,
          f \in [PeerNames -> IpamPeerAddrs \cup {EmptyStr}] :
          state = GlobalState(net,
                              ServerState(DefaultInterface, DefaultListenPort,
                                          <<"priv", 1>>, <<"pub", 1>>, srv, None, <<>>),
                              PeersFrom(f))
    /\ alloc = NotCalled
    /\ last = OpResult("init", "", TRUE, "", EmptyStr)
    /\ scn = 9
    /\ keyCtr = 1
    /\ pure = NoPure
    /\ IdleApply
    /\ IdleFw
    /\ IdleCli

AllocateIp ==
    /\ alloc = NotCalled
    /\ alloc' = allocate_ip(state)
    /\ UNCHANGED <<state, last, scn, keyCtr, pure, applyVars, fwVars, cliVars>>

NextIpam == AllocateIp

SpecIpam == InitIpam /\ [][NextIpam]_vars

(***************************************************************************)
(* Config renderer (wireguard.py)                                          *)
(***************************************************************************)
\* one line of a config file; the blank line is Line("", <<"", 0, 0>>)
Line(key, val) == [key |-> key, val |-> val]

BlankLine == Line("", <<"", 0, 0>>)

AddrText(a) == <<a.txt, a.ip, a.plen>>

KeyText(k) == <<k[1], k[2], 0>>

IntText(n) == <<"int", n, 0>>

\* `if p.preshared_key:` and `not x or not str(x).strip()`
Falsy(k) == k[1] \in {"None", "", " "}

PeerBlock(p) ==
    <<Line("[Peer]", <<"", 0, 0>>), Line("PublicKey", KeyText(p.public_key))>>
        \o (IF Falsy(p.preshared_key) THEN <<>>
            ELSE <<Line("PresharedKey", KeyText(p.preshared_key))>>)
        \o <<Line("AllowedIPs", AddrText(p.ip)), BlankLine>>

RECURSIVE PeerBlocks(_, _)
PeerBlocks(peers, i) ==
    IF i > Len(peers) THEN <<>>
    ELSE PeerBlock(peers[i].v) \o PeerBlocks(peers, i + 1)

\* str.strip() on the joined text: the blank lines at both ends go
RECURSIVE StripLines(_)
StripLines(lines) ==
    IF lines = <<>> THEN lines
    ELSE IF lines[Len(lines)] = BlankLine THEN StripLines(SubSeq(lines, 1, Len(lines) - 1))
    ELSE IF lines[1] = BlankLine THEN StripLines(Tail(lines))
    ELSE lines

render_with_timestamp(s) ==
    <<Line("# generated", IntText(clock)), Line("[Interface]", <<"", 0, 0>>)>>
        \o PeerBlocks(s.peers, 1)

render_server_conf(s) ==
    StripLines(<<Line("[Interface]", <<"", 0, 0>>),
                 Line("Address", AddrText(s.server.address)),
                 Line("ListenPort", IntText(s.server.listen_port)),
                 Line("PrivateKey", KeyText(s.server.private_key)),
                 BlankLine>>
               \o PeerBlocks(s.peers, 1))

\* `if x:` on an optional string
Truthy(k) == k[1] \notin {"None", ""}

\* ", ".join(xs) as a config value
JoinText(xs) == <<"join", xs, 0>>

\* render_client_conf: the text, or the KeyError of an unknown peer name
render_client_conf(s, peer_name) ==
    IF peer_name \notin DictKeys(s.peers)
    THEN [ok |-> FALSE, err |-> "KeyError", out |-> <<>>]
    ELSE LET p == DictVal(s.peers, peer_name)
             srv == s.server
         IN  [ok |-> TRUE, err |-> "",
              out |-> StripLines(
                  <<Line("[Interface]", <<"", 0, 0>>),
                    Line("Address", AddrText(p.ip)),
                    Line("PrivateKey", KeyText(p.private_key))>>
                  \o (IF srv.dns # None /\ srv.dns # <<>>
                      THEN <<Line("DNS", JoinText(srv.dns))>> ELSE <<>>)
                  \o <<BlankLine,
                       Line("[Peer]", <<"", 0, 0>>),
                       Line("PublicKey", KeyText(srv.public_key))>>
                  \o (IF Truthy(p.preshared_key)
                      THEN <<Line("PresharedKey", KeyText(p.preshared_key))>> ELSE <<>>)
                  \o <<Line("AllowedIPs", JoinText(p.allowed_ips))>>
                  \o (IF Truthy(srv.endpoint)
                      THEN <<Line("Endpoint", KeyText(srv.endpoint))>> ELSE <<>>)
                  \o <<Line("PersistentKeepalive", IntText(25))>>)]

(***************************************************************************)
(* State validator (wireguard.py)                                          *)
(***************************************************************************)
Problem(what, who) == <<what, who>>

\* str(x).strip() is empty
BlankName(x) == x \in {"", " "}

\* any(ch in name for ch in ("/", "\\", "..")) on the names of the model
HasPathToken(name) == name \in {"../etc", "a/b", "a\\b", ".."}

\* the checks of one peer, in source order; an unparsable ip skips the rest
PeerProblems(name, p, seen, net) ==
    (IF name = "" THEN <<Problem("peer avec nom vide", name)>> ELSE <<>>)
    \o (IF HasPathToken(name) THEN <<Problem("peer name interdit", name)>> ELSE <<>>)
    \o (IF ~Parses(p.ip) THEN <<Problem("ip invalide", name)>>
        ELSE (IF <<p.ip.ip, p.ip.plen>> \in seen
              THEN <<Problem("IP en doublon", name)>> ELSE <<>>)
          \o (IF Parses(net) /\ ~InNetwork(p.ip.ip, net)
              THEN <<Problem("IP hors network_cidr", name)>> ELSE <<>>)
          \o (IF Falsy(p.public_key)
              THEN <<Problem("public_key manquante/vide", name)>> ELSE <<>>)
          \o (IF Falsy(p.private_key)
              THEN <<Problem("private_key manquante/vide", name)>> ELSE <<>>)
          \o (IF Len(p.allowed_ips) = 0
              THEN <<Problem("allowed_ips vide", name)>> ELSE <<>>))

RECURSIVE ValidatePeers(_, _, _, _)
ValidatePeers(peers, i, seen, net) ==
    IF i > Len(peers) THEN <<>>
    ELSE LET p == peers[i].v IN
         PeerProblems(peers[i].k, p, seen, net)
           \o ValidatePeers(peers, i + 1,
                            IF Parses(p.ip) THEN seen \cup {<<p.ip.ip, p.ip.plen>>} ELSE seen,
                            net)

validate_state(s) ==
    (IF BlankName(s.server.interface)
     THEN <<Problem("server.interface manquant/vide", "")>> ELSE <<>>)
    \o (IF Falsy(s.server.private_key)
        THEN <<Problem("server.private_key manquante/vide", "")>> ELSE <<>>)
    \o (IF s.server.address.txt \in {"", " "}
        THEN <<Problem("server.address manquante/vide", "")>> ELSE <<>>)
    \o (IF ~(1 <= s.server.listen_port /\ s.server.listen_port <= 65535)
        THEN <<Problem("server.listen_port invalide", "")>> ELSE <<>>)
    \o (IF ~Parses(s.network_cidr)
        THEN <<Problem("network_cidr invalide", "")>> ELSE <<>>)
    \o (IF ~Parses(s.server.address)
        THEN <<Problem("server.address invalide", "")>> ELSE <<>>)
    \o ValidatePeers(s.peers, 1, {}, s.network_cidr)

(***************************************************************************)
(* State file (state.py)                                                   *)
(*                                                                         *)
(* A Python value handed to json is [t, v] with its type t: "none", "str", *)
(* "int", "list" (a sequence of values) or "dict" (the sequence of its     *)
(* items [k, v] in insertion order).  A JSON value is [t, v] with t one of *)
(* "null", "string", "number", "array", "object".                          *)
(***************************************************************************)
PyNone == [t |-> "none", v |-> 0]

PyStr(x) == [t |-> "str", v |-> x]

PyInt(n) == [t |-> "int", v |-> n]

PyList(a) == [t |-> "list", v |-> a]

PyDict(items) == [t |-> "dict", v |-> items]

Item(k, v) == [k |-> k, v |-> v]

\* an Optional[str] field
PyOptStr(x) == IF x = None THEN PyNone ELSE PyStr(x)

PyStrList(a) == PyList([i \in 1..Len(a) |-> PyStr(a[i])])

\* an Optional[List[str]] field
PyOptStrList(a) == IF a = None THEN PyNone ELSE PyStrList(a)

peer_to_dict(p) ==
    PyDict(<<Item("name", PyStr(p.name)),
             Item("private_key", PyStr(p.private_key)),
             Item("public_key", PyStr(p.public_key)),
             Item("ip", PyStr(p.ip)),
             Item("allowed_ips", PyStrList(p.allowed_ips)),
             Item("preshared_key", PyOptStr(p.preshared_key))>>)

state_to_dict(s) ==
    PyDict(<<Item("network_cidr", PyStr(s.network_cidr)),
             Item("server",
                  PyDict(<<Item("interface", PyStr(s.server.interface)),
                           Item("listen_port", PyInt(s.server.listen_port)),
                           Item("private_key", PyStr(s.server.private_key)),
                           Item("public_key", PyStr(s.server.public_key)),
                           Item("address", PyStr(s.server.address)),
                           Item("endpoint", PyOptStr(s.server.endpoint)),
                           Item("dns", PyOptStrList(s.server.dns))>>)),
             Item("peers",
                  PyDict([i \in 1..Len(s.peers) |->
                             Item(s.peers[i].k, peer_to_dict(s.peers[i].v))]))>>)

\* json.dump: None -> null, str -> string, int -> number, list -> array,
\* dict -> object
RECURSIVE json_dump(_)
json_dump(py) ==
    CASE py.t = "none" -> [t |-> "null", v |-> 0]
      [] py.t = "str"  -> [t |-> "string", v |-> py.v]
      [] py.t = "int"  -> [t |-> "number", v |-> py.v]
      [] py.t = "list" -> [t |-> "array", v |-> [i \in 1..Len(py.v) |-> json_dump(py.v[i])]]
      [] py.t = "dict" -> [t |-> "object",
                           v |-> [i \in 1..Len(py.v) |->
                                     Item(py.v[i].k, json_dump(py.v[i].v))]]

\* json.load
RECURSIVE json_load(_)
json_load(j) ==
    CASE j.t = "null"   -> PyNone
      [] j.t = "string" -> PyStr(j.v)
      [] j.t = "number" -> PyInt(j.v)
      [] j.t = "array"  -> PyList([i \in 1..Len(j.v) |-> json_load(j.v[i])])
      [] j.t = "object" -> PyDict([i \in 1..Len(j.v) |->
                                      Item(j.v[i].k, json_load(j.v[i].v))])

\* d[key]
PyItem(d, key) == d.v[CHOOSE i \in 1..Len(d.v) : d.v[i].k = key].v

\* d.get(key)
PyGet(d, key) ==
    IF \E i \in 1..Len(d.v) : d.v[i].k = key THEN PyItem(d, key) ELSE PyNone

FromOptAsEmpty(py) == IF py.t = "none" THEN EmptyKey ELSE py.v

\* the Python value of an optional string
FromOpt(py) == IF py.t = "none" THEN None ELSE py.v

FromStrList(py) == [i \in 1..Len(py.v) |-> py.v[i].v]

FromOptStrList(py) == IF py.t = "none" THEN None ELSE FromStrList(py)

dict_to_peer(p) ==
    Peer(PyItem(p, "name").v, PyItem(p, "private_key").v, PyItem(p, "public_key").v,
         PyItem(p, "ip").v, FromStrList(PyItem(p, "allowed_ips")),
         FromOpt(PyGet(p, "preshared_key")))

dict_to_state(data) ==
    LET server_data == PyItem(data, "server")
        peers_data  == PyGet(data, "peers")
    IN  GlobalState(
            PyItem(data, "network_cidr").v,
            ServerState(PyItem(server_data, "interface").v,
                        PyItem(server_data, "listen_port").v,
                        PyItem(server_data, "private_key").v,
                        PyItem(server_data, "public_key").v,
                        PyItem(server_data, "address").v,
                        FromOpt(PyGet(server_data, "endpoint")),
                        FromOptStrList(PyGet(server_data, "dns"))),
            IF peers_data.t = "none" THEN <<>>
            ELSE [i \in 1..Len(peers_data.v) |->
                     Item(peers_data.v[i].k, dict_to_peer(peers_data.v[i].v))])

\* save_state then load_state on the same path
save_then_load(s) == dict_to_state(json_load(json_dump(state_to_dict(s))))

(***************************************************************************)
(* validate_state and the state file as functions of a state: the states   *)
(* are drawn from bounded sets of well-formed and hand-edited states        *)
(***************************************************************************)
GoodNet == Cidr(IPv4(10, 8, 0, 0), 24)

\* the server sections: every combination of a good and a bad value per field
InputServers ==
    { ServerState(i, port, priv, pub, a, ep, dns) :
        i \in {DefaultInterface, ""},
        port \in {DefaultListenPort, 0, 65536},
        priv \in {<<"priv", 1>>, EmptyKey},
        pub \in {<<"pub", 1>>, EmptyKey},
        a \in {Cidr(IPv4(10, 8, 0, 1), 24), EmptyStr, JunkStr},
        ep \in {None, <<"endpoint", 1>>},
        dns \in {None, <<>>, <<"1.1.1.1">>} }

GoodServer ==
    ServerState(DefaultInterface, DefaultListenPort, <<"priv", 1>>, <<"pub", 1>>,
                Cidr(IPv4(10, 8, 0, 1), 24), None, None)

\* a first peer: every combination of a good and a bad value per field
InputPeers ==
    { Item(n, Peer(n, priv, pub, ip, allowed, psk)) :
        n \in {"phone", "", "../etc"},
        priv \in {<<"priv", 2>>, EmptyKey},
        pub \in {<<"pub", 2>>, EmptyKey},
        ip \in {Cidr(IPv4(10, 8, 0, 2), 32), Cidr(IPv4(10, 9, 0, 2), 32), JunkStr},
        allowed \in {<<GoodNet>>, <<>>},
        psk \in {None, <<"psk", 3>>} }

\* a second peer: sound, holding the first peer's address (as written or with
\* another prefix length), broken twice, or holding the server's address
SecondPeers ==
    { Item("laptop", Peer("laptop", <<"priv", 4>>, <<"pub", 4>>,
                          Cidr(IPv4(10, 8, 0, 3), 32), <<GoodNet>>, None)),
      Item("laptop", Peer("laptop", <<"priv", 4>>, <<"pub", 4>>,
                          Cidr(IPv4(10, 8, 0, 2), 32), <<GoodNet>>, <<"psk", 5>>)),
      Item("laptop", Peer("laptop", <<"priv", 4>>, EmptyKey, JunkStr, <<>>, None)),
      Item("laptop", Peer("laptop", <<"priv", 4>>, <<"pub", 4>>,
                          Cidr(IPv4(10, 8, 0, 2), 24), <<GoodNet>>, None)),
      Item("laptop", Peer("laptop", <<"priv", 4>>, <<"pub", 4>>,
                          Cidr(IPv4(10, 8, 0, 1), 32), <<GoodNet>>, None)) }

InputPeerLists ==
    {<<>>} \cup {<<p>> : p \in InputPeers}
           \cup {<<p, q>> : p \in InputPeers, q \in SecondPeers}

GoodPeerLists ==
    { <<>>,
      <<Item("phone", Peer("phone", <<"priv", 2>>, <<"pub", 2>>,
                           Cidr(IPv4(10, 8, 0, 2), 32), <<GoodNet>>, <<"psk", 3>>))>>,
      <<Item("phone", Peer("phone", <<"priv", 2>>, <<"pub", 2>>,
                           Cidr(IPv4(10, 8, 0, 2), 32), <<GoodNet>>, None)),
        Item("laptop", Peer("laptop", <<"priv", 4>>, <<"pub", 4>>,
                            Cidr(IPv4(10, 8, 0, 2), 32), <<GoodNet>>, <<"psk", 5>>))>> }

StateInputs ==
    { GlobalState(net, srv, peers) :
        net \in {GoodNet, JunkStr}, srv \in InputServers, peers \in GoodPeerLists }
    \cup
    { GlobalState(GoodNet, srv, peers) :
        srv \in {GoodServer, [GoodServer EXCEPT !.listen_port = 0]},
        peers \in InputPeerLists }

InitState ==
    /\ state \in StateInputs
    /\ alloc = NotCalled
    /\ last = OpResult("init", "", TRUE, "", EmptyStr)
    /\ scn = 9
    /\ keyCtr = 1
    /\ pure = NoPure
    /\ IdleApply
    /\ IdleFw
    /\ IdleCli

\* errs = validate_state(state)
ValidateState ==
    /\ pure.op = "none"
    /\ pure' = [op |-> "validate", out |-> validate_state(state)]
    /\ UNCHANGED <<state, alloc, last, scn, keyCtr, applyVars, fwVars, cliVars>>

\* save_state(state, path); load_state(path)
SaveThenLoad ==
    /\ pure.op = "none"
    /\ pure' = [op |-> "load", out |-> save_then_load(state)]
    /\ UNCHANGED <<state, alloc, last, scn, keyCtr, applyVars, fwVars, cliVars>>

\* the names render_client_conf and remove_peer are called with
LookupNames == {"phone", "laptop", "tablet"}

\* text = render_client_conf(state, name)
RenderClientConf(name) ==
    /\ pure.op = "none"
    /\ pure' = [op |-> "render_client", name |-> name,
                out |-> render_client_conf(state, name)]
    /\ UNCHANGED <<state, alloc, last, scn, keyCtr, applyVars, fwVars, cliVars>>

\* remove_peer(state, name) on the loaded state
RemoveLoaded(name) ==
    /\ pure.op = "none"
    /\ LET r == remove_peer(state, name) IN
         /\ state' = r.state
         /\ last' = r.res
    /\ pure' = [op |-> "remove_peer", name |-> name]
    /\ UNCHANGED <<alloc, scn, keyCtr, applyVars, fwVars, cliVars>>

NextState ==
    \/ ValidateState
    \/ SaveThenLoad
    \/ \E name \in LookupNames : RenderClientConf(name)
    \/ \E name \in LookupNames : RemoveLoaded(name)

SpecState == InitState /\ [][NextState]_vars

(***************************************************************************)
(* Command line (cli.py) over the state file data/state.json (state.py)    *)
(*                                                                         *)
(* The state file is [part, doc]: part is "absent", "empty" (opened for    *)
(* writing, nothing written), "partial" (some of the document written) or  *)
(* "complete"; doc is the JSON document being or having been written.      *)
(***************************************************************************)
NoDoc == [t |-> "null", v |-> 0]

DiskFile(part, doc) == [part |-> part, doc |-> doc]

DiskAbsent == DiskFile("absent", NoDoc)

\* the file after a save_state(s) that ran to its end
Saved(s) == DiskFile("complete", json_dump(state_to_dict(s)))

\* load_state: the file must exist and json.load must accept its content
load_state(d) ==
    IF d.part = "absent" THEN [ok |-> FALSE, err |-> "FileNotFoundError"]
    ELSE IF d.part # "complete" THEN [ok |-> FALSE, err |-> "JSONDecodeError"]
    ELSE [ok |-> TRUE, err |-> ""]

Loaded(d) == dict_to_state(json_load(d.doc))

NoPath == <<>>

\* configs/<stem><suffix>
ConfigsPath(stem, suffix) == <<"configs", stem, suffix>>

\* the names given on the command line
CliNames == {"phone", "laptop", "../etc"}

CliIdle ==
    [cmd |-> "", name |-> "", pc |-> "idle", exit |-> -1, err |-> "",
     wrote |-> NoPath, n |-> 0, prev |-> DiskAbsent]

\* main(): a command is parsed and its handler called
Begin(cmd, name) ==
    [cmd |-> cmd, name |-> name, pc |-> "run", exit |-> -1, err |-> "",
     wrote |-> NoPath, n |-> cli.n + 1, prev |-> disk]

\* the handler returned (code 0) or main() caught an exception (code 1);
\* err is the error the core operation raised, caught by the handler or not
Exited(c, code, err, wrote) ==
    [c EXCEPT !.pc = "exited", !.exit = code, !.err = err, !.wrote = wrote]

Ready == cli.pc \in {"idle", "exited", "killed"} /\ cli.n < MaxCmds

\* vpn init: init_server(...) generates the server key pair and saves
CmdInit(tool) ==
    /\ Ready
    /\ disk.part = "absent"
    /\ keyCtr = 0
    /\ IF tool = "genkey_fail"
       THEN /\ cli' = Exited(Begin("init", ""), 1, "CommandError: wg genkey", NoPath)
            /\ UNCHANGED <<state, keyCtr>>
       ELSE /\ state' = init_server(DefaultInterface, Cidr(IPv4(10, 8, 0, 0), 24),
                                    DefaultListenPort, None, <<"1.1.1.1", "8.8.8.8">>)
            /\ keyCtr' = 1
            /\ cli' = [Begin("init", "") EXCEPT !.pc = "save_open"]
    /\ UNCHANGED <<disk, adders, alloc, last, scn, pure, applyVars, fwVars>>

\* vpn add-peer NAME: load_state, add_peer, then save_state
CmdAddPeer(name, tool) ==
    /\ Ready
    /\ keyCtr + 2 <= MaxKeyGens
    /\ LET l == load_state(disk) IN
         IF ~l.ok
         THEN /\ cli' = Exited(Begin("add-peer", name), 1, l.err, NoPath)
              /\ UNCHANGED <<state, keyCtr, last>>
         ELSE LET r == add_peer(Loaded(disk), name, TRUE, tool, keyCtr) IN
              /\ state' = r.state
              /\ keyCtr' = r.ctr
              /\ last' = r.res
              /\ cli' = IF r.res.ok
                        THEN [Begin("add-peer", name) EXCEPT !.pc = "save_open"]
                        ELSE Exited(Begin("add-peer", name), 1, r.res.err, NoPath)
    /\ UNCHANGED <<disk, adders, alloc, scn, pure, applyVars, fwVars>>

\* vpn remove-peer NAME: load_state, remove_peer (KeyError: print and
\* return), then save_state
CmdRemovePeer(name) ==
    /\ Ready
    /\ LET l == load_state(disk) IN
         IF ~l.ok
         THEN /\ cli' = Exited(Begin("remove-peer", name), 1, l.err, NoPath)
              /\ UNCHANGED <<state, last>>
         ELSE LET r == remove_peer(Loaded(disk), name) IN
              /\ state' = r.state
              /\ last' = r.res
              /\ cli' = IF r.res.ok
                        THEN [Begin("remove-peer", name) EXCEPT !.pc = "save_open"]
                        ELSE Exited(Begin("remove-peer", name), 0, r.res.err, NoPath)
    /\ UNCHANGED <<disk, adders, alloc, scn, keyCtr, pure, applyVars, fwVars>>

\* vpn export-peer NAME / vpn generate-qr NAME: load_state, render_client_conf
\* (KeyError: print and return), then write configs/NAME.conf or .png
CmdExport(cmd, name) ==
    /\ Ready
    /\ LET l == load_state(disk) IN
         IF ~l.ok
         THEN /\ cli' = Exited(Begin(cmd, name), 1, l.err, NoPath)
              /\ UNCHANGED <<state, pure>>
         ELSE LET r == render_client_conf(Loaded(disk), name) IN
              /\ state' = Loaded(disk)
              /\ pure' = [op |-> "render_client", name |-> name, out |-> r]
              /\ cli' = IF r.ok
                        THEN Exited(Begin(cmd, name), 0, "",
                                    ConfigsPath(name, IF cmd = "export-peer"
                                                      THEN ".conf" ELSE ".png"))
                        ELSE Exited(Begin(cmd, name), 0, r.err, NoPath)
    /\ UNCHANGED <<disk, adders, alloc, last, scn, keyCtr, applyVars, fwVars>>

\* vpn show-peer NAME: load_state, state.peers.get(name) (None: print and
\* return)
CmdShowPeer(name) ==
    /\ Ready
    /\ LET l == load_state(disk) IN
         IF ~l.ok
         THEN /\ cli' = Exited(Begin("show-peer", name), 1, l.err, NoPath)
              /\ UNCHANGED state
         ELSE /\ state' = Loaded(disk)
              /\ cli' = Exited(Begin("show-peer", name), 0,
                               IF name \in DictKeys(Loaded(disk).peers) THEN "" ELSE "KeyError",
                               NoPath)
    /\ UNCHANGED <<disk, adders, alloc, last, scn, keyCtr, pure, applyVars, fwVars>>

\* vpn list-peers: load_state and print
CmdList ==
    /\ Ready
    /\ LET l == load_state(disk) IN
         IF ~l.ok
         THEN /\ cli' = Exited(Begin("list-peers", ""), 1, l.err, NoPath)
              /\ UNCHANGED state
         ELSE /\ state' = Loaded(disk)
              /\ cli' = Exited(Begin("list-peers", ""), 0, "", NoPath)
    /\ UNCHANGED <<disk, adders, alloc, last, scn, keyCtr, pure, applyVars, fwVars>>

\* save_state: path.open("w") creates or truncates the state file itself
SaveOpen ==
    /\ cli.pc = "save_open"
    /\ disk' = DiskFile("empty", NoDoc)
    /\ cli' = [cli EXCEPT !.pc = "save_dump"]
    /\ UNCHANGED <<adders, peerVars, applyVars, fwVars>>

\* save_state: json.dump writes the document piece by piece
SaveDump ==
    /\ cli.pc = "save_dump"
    /\ disk' = DiskFile("partial", json_dump(state_to_dict(state)))
    /\ cli' = [cli EXCEPT !.pc = "save_close"]
    /\ UNCHANGED <<adders, peerVars, applyVars, fwVars>>

\* save_state: the rest is written and the file closed; the handler then
\* writes configs/<iface>.conf (add-peer, remove-peer), prints and returns
SaveClose ==
    /\ cli.pc = "save_close"
    /\ disk' = Saved(state)
    /\ cli' = Exited(cli, 0, "",
                     IF cli.cmd = "init" THEN NoPath
                     ELSE ConfigsPath(state.server.interface, ".conf"))
    /\ UNCHANGED <<adders, peerVars, applyVars, fwVars>>

\* the process is killed (signal, power loss) inside save_state
Interrupt ==
    /\ cli.pc \in {"save_open", "save_dump", "save_close"}
    /\ cli' = [cli EXCEPT !.pc = "killed"]
    /\ UNCHANGED <<disk, adders, peerVars, applyVars, fwVars>>

InitCli ==
    /\ cli = CliIdle
    /\ disk = DiskAbsent
    /\ adders = <<>>
    /\ state = init_server(DefaultInterface, Cidr(IPv4(10, 8, 0, 0), 24),
                           DefaultListenPort, None, <<>>)
    /\ alloc = NotCalled
    /\ last = OpResult("init", "", TRUE, "", EmptyStr)
    /\ scn = 9
    /\ keyCtr = 0
    /\ pure = NoPure
    /\ IdleApply
    /\ IdleFw

NextCli ==
    \/ \E tool \in {"ok", "genkey_fail"} : CmdInit(tool)
    \/ \E name \in CliNames, tool \in {"ok", "genkey_fail"} : CmdAddPeer(name, tool)
    \/ \E name \in CliNames : CmdRemovePeer(name)
    \/ \E cmd \in {"export-peer", "generate-qr"}, name \in CliNames : CmdExport(cmd, name)
    \/ \E name \in CliNames : CmdShowPeer(name)
    \/ CmdList
    \/ SaveOpen
    \/ SaveDump
    \/ SaveClose
    \/ Interrupt

SpecCli == InitCli /\ [][NextCli]_vars

(***************************************************************************)
(* Two vpn add-peer processes on the same state file (cli.py:              *)
(* cmd_add_peer). Each holds its own GlobalState in memory between         *)
(* load_state and save_state; the file is neither locked nor renamed.      *)
(***************************************************************************)
Adder(name) ==
    [name |-> name, pc |-> "start", mem |-> <<>>, exit |-> -1, err |-> "",
     ip |-> EmptyStr, alone |-> TRUE]

AdderExit(p, code, err) ==
    [adders EXCEPT ![p].pc = "exited", ![p].exit = code, ![p].err = err]

\* number of characters the peers' names take in the document (each name is
\* written as the key and as the "name" field)
NameChars(s) ==
    LET Sum[i \in 0..Len(s.peers)] ==
            IF i = 0 THEN 0 ELSE Sum[i - 1] + 2 * Len(s.peers[i].k)
    IN  Sum[Len(s.peers)]

\* the document of state a is at least as long as the one of state b (peers
\* written by cmd_add_peer differ in length only by their names)
Covers(a, b) ==
    \/ Len(a.peers) > Len(b.peers)
    \/ Len(a.peers) = Len(b.peers) /\ NameChars(a) >= NameChars(b)

WriteOverKeepsFile(d, s) == d

\* json.dump and close through a file opened before somebody else's write:
\* the text is written from offset 0 over what the file holds by then, and
\* the tail of a longer document stays behind it
WriteOver(d, s) ==
    IF d.part = "empty" THEN Saved(s)
    ELSE IF d.part = "complete" /\ Covers(s, Loaded(d)) THEN Saved(s)
    ELSE DiskFile("partial", json_dump(state_to_dict(s)))

\* state = load_state(); alone (ghost): no other process is between its load
\* and its exit
AdderLoad(p) ==
    /\ adders[p].pc = "start"
    /\ LET l == load_state(disk) IN
         adders' = IF l.ok
                  THEN [adders EXCEPT ![p].pc = "add", ![p].mem = Loaded(disk),
                                     ![p].alone = \A q \in DOMAIN adders \ {p} :
                                                     adders[q].pc \in {"start", "exited"}]
                  ELSE AdderExit(p, 1, l.err)
    /\ UNCHANGED <<cli, disk, peerVars, applyVars, fwVars>>

\* peer = add_peer(state, args.name), on the state in memory
AdderAdd(p, tool) ==
    /\ adders[p].pc = "add"
    /\ LET r == add_peer(adders[p].mem, adders[p].name, TRUE, tool, keyCtr) IN
         /\ keyCtr' = r.ctr
         /\ adders' = IF r.res.ok
                     THEN [adders EXCEPT ![p].pc = "save_open", ![p].mem = r.state,
                                        ![p].ip = r.res.ip]
                     ELSE AdderExit(p, 1, r.res.err)
    /\ UNCHANGED <<cli, disk, state, alloc, last, scn, pure, applyVars, fwVars>>

\* save_state(state): path.open("w")
AdderSaveOpen(p) ==
    /\ adders[p].pc = "save_open"
    /\ disk' = DiskFile("empty", NoDoc)
    /\ adders' = [adders EXCEPT ![p].pc = "save_write"]
    /\ UNCHANGED <<cli, peerVars, applyVars, fwVars>>

\* save_state(state): json.dump and close; then write_server_conf, the
\* prints, and the handler returns
AdderSaveWrite(p) ==
    /\ adders[p].pc = "save_write"
    /\ disk' = WriteOver(disk, adders[p].mem)
    /\ adders' = AdderExit(p, 0, "")
    /\ UNCHANGED <<cli, peerVars, applyVars, fwVars>>

\* the state file vpn init left, or the one after a first add-peer
AdderDisks ==
    LET s0 == init_server(DefaultInterface, Cidr(IPv4(10, 8, 0, 0), 24),
                          DefaultListenPort, None, <<"1.1.1.1", "8.8.8.8">>)
    IN  {Saved(s0), Saved(add_peer(s0, "tablet", TRUE, "ok", 1).state)}

InitAdders ==
    /\ disk \in AdderDisks
    /\ \E a, b \in {"phone", "laptop", "tv"} :
          /\ a # b
          /\ adders = <<Adder(a), Adder(b)>>
    /\ cli = <<>>
    /\ state = Loaded(disk)
    /\ alloc = NotCalled
    /\ last = OpResult("init", "", TRUE, "", EmptyStr)
    /\ scn = 9
    /\ keyCtr = 1 + 2 * Len(Loaded(disk).peers)
    /\ pure = NoPure
    /\ IdleApply
    /\ IdleFw

NextAdders ==
    \/ \E p \in DOMAIN adders : AdderLoad(p)
    \/ \E p \in DOMAIN adders, tool \in {"ok", "genkey_fail"} : AdderAdd(p, tool)
    \/ \E p \in DOMAIN adders : AdderSaveOpen(p)
    \/ \E p \in DOMAIN adders : AdderSaveWrite(p)

SpecAdders == InitAdders /\ [][NextAdders]_vars

(***************************************************************************)
(* Files of /etc/wireguard: a function from the existing paths to files    *)
(***************************************************************************)
File(data, mode) == [data |-> data, mode |-> mode]

Exists(f, path) == path \in DOMAIN f

WriteFile(f, path, file) ==
    [q \in DOMAIN f \cup {path} |-> IF q = path THEN file ELSE f[q]]

\* open(path, "w"): creates the file with the umask's mode, or truncates it
OpenTrunc(f, path) ==
    WriteFile(f, path, File(<<>>, IF Exists(f, path) THEN f[path].mode ELSE "umask"))

SetData(f, path, data) == [f EXCEPT ![path].data = data]

Chmod(f, path, mode) == [f EXCEPT ![path].mode = mode]

ReplaceNoop(f, a, b) == f

\* Path.replace: rename a over b
Replace(f, a, b) ==
    [q \in (DOMAIN f \ {a}) \cup {b} |-> IF q = b THEN f[a] ELSE f[q]]

\* /etc/wireguard/<interface>.conf
TargetPath(iface) == <<iface, ".conf", 0>>

TmpPathInPlace(target) == target

\* target.with_suffix(".conf.tmp")
TmpPath(target) == <<target[1], ".conf.tmp", 0>>

\* <interface>.conf.bak-<timestamp>
BakPath(iface, ts) == <<iface, ".conf.bak", ts>>

(***************************************************************************)
(* Apply pipeline (wireguard.py: apply_safe, backup_etc_conf,              *)
(* install_server_conf_to_etc, link_is_up, wg_quick_up, wg_quick_down)     *)
(***************************************************************************)
RequiredBinsWithoutIp == {"wg", "wg-quick"}

\* the binaries apply_safe looks up with _which
RequiredBins == {"wg", "wg-quick", "ip"}

Result(kind, msg) == [kind |-> kind, msg |-> msg]

NoResult == Result("", <<>>)

RefusesNever(errs) == FALSE

\* `if errs:` of apply_safe
Refuses(errs) == errs # <<>>

\* "State invalide, apply refusé:\n- " + "\n- ".join(errs)
apply_msg(errs) == <<Problem("State invalide, apply refuse:", "")>> \o errs

AfterMkdirNoBackup == "render"

\* the order of apply_safe's calls after the checks
AfterMkdir == "backup"

AfterBackup == "render"

AfterInstallAlwaysBounce(restart) == "bounce_check"

AfterInstall(restart) == IF restart THEN "bounce_check" ELSE "Success"

Running(p) == ap[p].pc \notin {"Success", "Rejected", "Failed", "Crashed"}

Iface(p) == ap[p].st.server.interface

Fail(p, kind) == [ap EXCEPT ![p].pc = "Failed", ![p].res = Result(kind, <<>>)]

Goto(p, pc) == [ap EXCEPT ![p].pc = pc]

Done(p, pc, step) ==
    [ap EXCEPT ![p].pc = pc, ![p].steps = Append(@, step),
               ![p].res = IF pc = "Success" THEN Result("ok", <<>>) ELSE @]

\* errs = validate_state(state); if errs: raise ValueError(msg)
Validate(p) ==
    /\ ap[p].pc = "validate"
    /\ LET errs == validate_state(ap[p].st) IN
         ap' = IF Refuses(errs)
               THEN [ap EXCEPT ![p].pc = "Rejected",
                               ![p].res = Result("ValueError", apply_msg(errs))]
               ELSE Done(p, "privilege", "validate")
    /\ UNCHANGED <<fs, etcDir, link, env, clock, cmds, host0, peerVars, fwVars, cliVars>>

\* if not _is_root(): raise PermissionError
Privilege(p) ==
    /\ ap[p].pc = "privilege"
    /\ ap' = IF env.root THEN Done(p, "binaries", "privilege") ELSE Fail(p, "PermissionError")
    /\ UNCHANGED <<fs, etcDir, link, env, clock, cmds, host0, peerVars, fwVars, cliVars>>

\* _which("wg"); _which("wg-quick"); _which("ip")
Binaries(p) ==
    /\ ap[p].pc = "binaries"
    /\ ap' = IF RequiredBins \subseteq env.bins THEN Goto(p, "mkdir")
             ELSE Fail(p, "FileNotFoundError")
    /\ UNCHANGED <<fs, etcDir, link, env, clock, cmds, host0, peerVars, fwVars, cliVars>>

\* Path("/etc/wireguard").mkdir(parents=True, exist_ok=True)
Mkdir(p) ==
    /\ ap[p].pc = "mkdir"
    /\ etcDir' = TRUE
    /\ ap' = Goto(p, AfterMkdir)
    /\ UNCHANGED <<fs, link, env, clock, cmds, host0, peerVars, fwVars, cliVars>>

\* backup_etc_conf up to dst.write_bytes(src.read_bytes()); an I/O error of
\* the copy is not caught and ends apply_safe
Backup(p, io) ==
    /\ ap[p].pc = "backup"
    /\ LET src == TargetPath(Iface(p))
           dst == BakPath(Iface(p), clock)
       IN  IF ~Exists(fs, src)
           THEN /\ ap' = Done(p, AfterBackup, "backup")
                /\ fs' = fs
           ELSE IF io = "read_fail"
           THEN /\ ap' = Fail(p, "OSError")
                /\ fs' = fs
           ELSE IF io = "write_fail"
           THEN /\ ap' = Fail(p, "OSError")
                /\ fs' = OpenTrunc(fs, dst)
           ELSE /\ ap' = Goto(p, "backup_chmod")
                /\ fs' = SetData(OpenTrunc(fs, dst), dst, fs[src].data)
    /\ UNCHANGED <<etcDir, link, env, clock, cmds, host0, peerVars, fwVars, cliVars>>

\* try: dst.chmod(0o600) except Exception: pass
BackupChmod(p, ok) ==
    /\ ap[p].pc = "backup_chmod"
    /\ LET dst == BakPath(Iface(p), clock) IN
         fs' = IF ok /\ Exists(fs, dst) THEN Chmod(fs, dst, "0600") ELSE fs
    /\ ap' = Done(p, AfterBackup, "backup")
    /\ UNCHANGED <<etcDir, link, env, clock, cmds, host0, peerVars, fwVars, cliVars>>

\* install_server_conf_to_etc up to conf = render_server_conf(state)
Render(p) ==
    /\ ap[p].pc = "render"
    /\ IF env.root
       THEN /\ ap' = [ap EXCEPT ![p].pc = "open_tmp",
                                ![p].conf = render_server_conf(ap[p].st)]
            /\ etcDir' = TRUE
       ELSE /\ ap' = Fail(p, "PermissionError")
            /\ etcDir' = etcDir
    /\ UNCHANGED <<fs, link, env, clock, cmds, host0, peerVars, fwVars, cliVars>>

\* tmp.write_text(conf): the open; fd is the path under which the file the
\* process holds open can be found
OpenTmp(p) ==
    /\ ap[p].pc = "open_tmp"
    /\ fs' = OpenTrunc(fs, TmpPath(TargetPath(Iface(p))))
    /\ ap' = [ap EXCEPT ![p].pc = "write_tmp", ![p].fd = TmpPath(TargetPath(Iface(p)))]
    /\ UNCHANGED <<etcDir, link, env, clock, cmds, host0, peerVars, fwVars, cliVars>>

\* tmp.write_text(conf): the write and the close; the text goes to the file
\* that was opened, wherever a rename has moved it since
WriteTmp(p) ==
    /\ ap[p].pc = "write_tmp"
    /\ fs' = IF Exists(fs, ap[p].fd) THEN SetData(fs, ap[p].fd, ap[p].conf) ELSE fs
    /\ ap' = [ap EXCEPT ![p].pc = "chmod_tmp", ![p].fd = NoPath]
    /\ UNCHANGED <<etcDir, link, env, clock, cmds, host0, peerVars, fwVars, cliVars>>

\* tmp.chmod(0o600)
ChmodTmp(p) ==
    /\ ap[p].pc = "chmod_tmp"
    /\ LET tmp == TmpPath(TargetPath(Iface(p))) IN
         IF Exists(fs, tmp)
         THEN /\ fs' = Chmod(fs, tmp, "0600")
              /\ ap' = Goto(p, "rename")
         ELSE /\ fs' = fs
              /\ ap' = Fail(p, "FileNotFoundError")
    /\ UNCHANGED <<etcDir, link, env, clock, cmds, host0, peerVars, fwVars, cliVars>>

\* a rename of tmp over target as the other processes see it: a file held
\* open under tmp is now the target, one held open under target is unlinked
Moved(a, p, tmp, target) ==
    [q \in DOMAIN a |->
        IF q = p \/ tmp = target THEN a[q]
        ELSE IF a[q].fd = tmp THEN [a[q] EXCEPT !.fd = target]
        ELSE IF a[q].fd = target THEN [a[q] EXCEPT !.fd = NoPath]
        ELSE a[q]]

\* tmp.replace(target)
Rename(p) ==
    /\ ap[p].pc = "rename"
    /\ LET target == TargetPath(Iface(p))
           tmp    == TmpPath(target)
       IN  IF Exists(fs, tmp)
           THEN /\ fs' = Replace(fs, tmp, target)
                /\ ap' = Moved(Done(p, AfterInstall(ap[p].restart), "install"),
                               p, tmp, target)
           ELSE /\ fs' = fs
                /\ ap' = Fail(p, "FileNotFoundError")
    /\ UNCHANGED <<etcDir, link, env, clock, cmds, host0, peerVars, fwVars, cliVars>>

\* if link_is_up(iface):
BounceCheck(p) ==
    /\ ap[p].pc = "bounce_check"
    /\ cmds' = Append(cmds, <<"ip link show", Iface(p)>>)
    /\ ap' = Goto(p, IF link THEN "down" ELSE "up")
    /\ UNCHANGED <<fs, etcDir, link, env, clock, host0, peerVars, fwVars, cliVars>>

\* wg_quick_down(iface); the tool fails on its own (ok = FALSE) or because
\* the interface is not up
Down(p, ok) ==
    /\ ap[p].pc = "down"
    /\ cmds' = Append(cmds, <<"wg-quick down", Iface(p)>>)
    /\ IF ok /\ link
       THEN /\ link' = FALSE
            /\ ap' = Goto(p, "up")
       ELSE /\ link' = link
            /\ ap' = Fail(p, "CommandError")
    /\ UNCHANGED <<fs, etcDir, env, clock, host0, peerVars, fwVars, cliVars>>

\* wg_quick_up(iface); the tool fails on its own or because the interface exists
Up(p, ok) ==
    /\ ap[p].pc = "up"
    /\ cmds' = Append(cmds, <<"wg-quick up", Iface(p)>>)
    /\ IF ok /\ ~link
       THEN /\ link' = TRUE
            /\ ap' = Done(p, "Success", "bounce")
       ELSE /\ link' = link
            /\ ap' = Fail(p, "CommandError")
    /\ UNCHANGED <<fs, etcDir, env, clock, host0, peerVars, fwVars, cliVars>>

\* the process is killed between two steps
Crash(p) ==
    /\ Running(p)
    /\ ap' = Goto(p, "Crashed")
    /\ UNCHANGED <<fs, etcDir, link, env, clock, cmds, host0, peerVars, fwVars, cliVars>>

\* the process is killed inside write_text: the first k lines are on disk
CrashMidWrite(p, k) ==
    /\ ap[p].pc = "write_tmp"
    /\ k < Len(ap[p].conf)
    /\ Exists(fs, ap[p].fd)
    /\ fs' = SetData(fs, ap[p].fd, SubSeq(ap[p].conf, 1, k))
    /\ ap' = Goto(p, "Crashed")
    /\ UNCHANGED <<etcDir, link, env, clock, cmds, host0, peerVars, fwVars, cliVars>>

\* cmd_apply is run again on the unchanged state file after a successful
\* apply; prev keeps the text the earlier run installed
ApplyAgain(p, restart) ==
    /\ ap[p].pc = "Success"
    /\ ap[p].run < MaxApplies
    /\ ap' = [ap EXCEPT ![p].pc = "validate", ![p].restart = restart, ![p].conf = <<>>,
                        ![p].res = NoResult, ![p].steps = <<>>, ![p].fd = NoPath,
                        ![p].run = @ + 1, ![p].prev = IF Exists(fs, TargetPath(Iface(p)))
                                            THEN fs[TargetPath(Iface(p))].data
                                            ELSE <<>>]
    /\ cmds' = <<>>
    /\ host0' = [fs |-> fs, etcDir |-> etcDir, link |-> link]
    /\ UNCHANGED <<fs, etcDir, link, env, clock, peerVars, fwVars, cliVars>>

\* datetime.datetime.now() moves on
Tick ==
    /\ clock < MaxClock
    /\ clock' = clock + 1
    /\ UNCHANGED <<ap, fs, etcDir, link, env, cmds, host0, peerVars, fwVars, cliVars>>

(***************************************************************************)
(* States handed to apply: built by the peer operations, and edited by     *)
(* hand in the state file                                                  *)
(***************************************************************************)
StateV0 == init_server(DefaultInterface, Cidr(IPv4(10, 8, 0, 0), 24), DefaultListenPort, None, <<>>)

StateV1 == add_peer(StateV0, "phone", TRUE, "ok", 1).state

StateV2 == add_peer(StateV1, "laptop", FALSE, "ok", 3).state

StateBadPort == [StateV1 EXCEPT !.server.listen_port = 0]

\* a duplicate peer address together with an out-of-range port
StateDupAndPort ==
    [StateV2 EXCEPT !.server.listen_port = 70000,
                    !.peers[2].v.ip = StateV2.peers[1].v.ip]

StateBadIface == [StateV0 EXCEPT !.server.interface = ""]

ValidStates == {StateV0, StateV1, StateV2}

ApplyStates == ValidStates \cup {StateBadPort, StateDupAndPort, StateBadIface}

InstalledFiles ==
    {<<>>} \cup {(TargetPath(DefaultInterface) :> File(render_server_conf(s), "0600")) :
                    s \in {StateV0, StateV1}}

InitApplyProcs(procs) ==
    /\ clock = 1
    /\ ap \in [procs -> [pc : {"validate"}, st : ApplyStates, restart : BOOLEAN,
                         conf : {<<>>}, res : {NoResult}, steps : {<<>>},
                         run : {1}, prev : {<<>>}, fd : {NoPath}]]
    /\ env \in [root : BOOLEAN,
                 bins : {RequiredBins} \cup {RequiredBins \ {b} : b \in RequiredBins}]
    /\ link \in BOOLEAN
    /\ fs \in InstalledFiles
    /\ etcDir \in (IF fs = <<>> THEN BOOLEAN ELSE {TRUE})
    /\ cmds = <<>>
    /\ host0 = [fs |-> fs, etcDir |-> etcDir, link |-> link]
    /\ IdlePeers
    /\ IdleFw
    /\ IdleCli

InitApply == InitApplyProcs({1})

NextApply ==
    \/ \E p \in DOMAIN ap : Validate(p)
    \/ \E p \in DOMAIN ap : Privilege(p)
    \/ \E p \in DOMAIN ap : Binaries(p)
    \/ \E p \in DOMAIN ap : Mkdir(p)
    \/ \E p \in DOMAIN ap, io \in {"ok", "read_fail", "write_fail"} : Backup(p, io)
    \/ \E p \in DOMAIN ap, ok \in BOOLEAN : BackupChmod(p, ok)
    \/ \E p \in DOMAIN ap : Render(p)
    \/ \E p \in DOMAIN ap : OpenTmp(p)
    \/ \E p \in DOMAIN ap : WriteTmp(p)
    \/ \E p \in DOMAIN ap : ChmodTmp(p)
    \/ \E p \in DOMAIN ap : Rename(p)
    \/ \E p \in DOMAIN ap : BounceCheck(p)
    \/ \E p \in DOMAIN ap, ok \in BOOLEAN : Down(p, ok)
    \/ \E p \in DOMAIN ap, ok \in BOOLEAN : Up(p, ok)
    \/ \E p \in DOMAIN ap : Crash(p)
    \/ \E p \in DOMAIN ap : \E k \in 0..(Len(ap[p].conf) - 1) : CrashMidWrite(p, k)
    \/ \E p \in DOMAIN ap, restart \in BOOLEAN : ApplyAgain(p, restart)
    \/ Tick

SpecApply == InitApply /\ [][NextApply]_vars

(***************************************************************************)
(* Two vpn apply processes started on the same host for the same           *)
(* interface, the second after a peer was added; nothing serialises them   *)
(***************************************************************************)
InitRace ==
    /\ InitApplyProcs({1, 2})
    /\ ap[1].st = StateV1
    /\ ap[2].st = StateV2
    /\ env = [root |-> TRUE, bins |-> RequiredBins]

NextRace ==
    \/ \E p \in DOMAIN ap : Validate(p)
    \/ \E p \in DOMAIN ap : Privilege(p)
    \/ \E p \in DOMAIN ap : Binaries(p)
    \/ \E p \in DOMAIN ap : Mkdir(p)
    \/ \E p \in DOMAIN ap, io \in {"ok", "read_fail", "write_fail"} : Backup(p, io)
    \/ \E p \in DOMAIN ap, ok \in BOOLEAN : BackupChmod(p, ok)
    \/ \E p \in DOMAIN ap : Render(p)
    \/ \E p \in DOMAIN ap : OpenTmp(p)
    \/ \E p \in DOMAIN ap : WriteTmp(p)
    \/ \E p \in DOMAIN ap : ChmodTmp(p)
    \/ \E p \in DOMAIN ap : Rename(p)
    \/ \E p \in DOMAIN ap : BounceCheck(p)
    \/ \E p \in DOMAIN ap, ok \in BOOLEAN : Down(p, ok)
    \/ \E p \in DOMAIN ap, ok \in BOOLEAN : Up(p, ok)
    \/ Tick

SpecRace == InitRace /\ [][NextRace]_vars

(***************************************************************************)
(* iptables (firewall.py drives it through run_cmd)                        *)
(*                                                                         *)
(* A chain or target name is the sequence of the fragments of its text     *)
(* (<<"VPNWG_IN">>, <<"VPNWG_IN", "_OLD">>), so that "text a starts with   *)
(* text b" is "b is a prefix of a".  A rule is its match text, its target  *)
(* and the text of its comment (the empty sequence: none).  A table is a   *)
(* function from the names of its chains to their rules.                   *)
(***************************************************************************)
CH_IN == <<"VPNWG_IN">>

CH_FWD == <<"VPNWG_FWD">>

CH_NAT == <<"VPNWG_NAT">>

INPUT == <<"INPUT">>

FORWARD == <<"FORWARD">>

POSTROUTING == <<"POSTROUTING">>

BuiltinChains == {INPUT, FORWARD, POSTROUTING}

BuiltinTargets == {<<"ACCEPT">>, <<"DROP">>, <<"MASQUERADE">>}

Rule(m, t, c) == [m |-> m, t |-> t, c |-> c]

StartsWith(text, prefix) ==
    Len(prefix) <= Len(text) /\ SubSeq(text, 1, Len(prefix)) = prefix

IptOk(tb) == [ok |-> TRUE, tb |-> tb]

IptErr(tb) == [ok |-> FALSE, tb |-> tb]

\* iptables -N chain
IptNew(tb, ch) ==
    IF ch \in DOMAIN tb THEN IptErr(tb)
    ELSE IptOk([q \in DOMAIN tb \cup {ch} |-> IF q = ch THEN <<>> ELSE tb[q]])

\* iptables -F chain
IptFlush(tb, ch) ==
    IF ch \notin DOMAIN tb THEN IptErr(tb) ELSE IptOk([tb EXCEPT ![ch] = <<>>])

Referenced(tb, ch) == \E q \in DOMAIN tb : \E i \in 1..Len(tb[q]) : tb[q][i].t = ch

\* iptables -X chain: the chain must exist, be empty and be referenced nowhere
IptDeleteChain(tb, ch) ==
    IF ch \notin DOMAIN tb \/ ch \in BuiltinChains \/ tb[ch] # <<>> \/ Referenced(tb, ch)
    THEN IptErr(tb)
    ELSE IptOk([q \in DOMAIN tb \ {ch} |-> tb[q]])

TargetKnown(tb, rule) == rule.t \in BuiltinTargets \/ rule.t \in DOMAIN tb

\* iptables -A chain rule
IptAppend(tb, ch, rule) ==
    IF ch \notin DOMAIN tb \/ ~TargetKnown(tb, rule) THEN IptErr(tb)
    ELSE IptOk([tb EXCEPT ![ch] = Append(@, rule)])

\* iptables -I chain 1 rule
IptInsertFirst(tb, ch, rule) ==
    IF ch \notin DOMAIN tb \/ ~TargetKnown(tb, rule) THEN IptErr(tb)
    ELSE IptOk([tb EXCEPT ![ch] = <<rule>> \o @])

\* iptables -D chain n
IptDeleteNum(tb, ch, n) ==
    IF ch \notin DOMAIN tb \/ n < 1 \/ n > Len(tb[ch]) THEN IptErr(tb)
    ELSE IptOk([tb EXCEPT ![ch] = SubSeq(@, 1, n - 1) \o SubSeq(@, n + 1, Len(@))])

\* `needle in out` for needle "-A <parent> -j <jump_chain>" and the line
\* "-A <parent> [match] [-m comment --comment ..] -j <target>" of iptables -S
NeedleInLine(rule, jump_chain) ==
    rule.m = <<>> /\ rule.c = <<>> /\ StartsWith(rule.t, jump_chain)

\* `f" {jump_chain}" in line` for the line "num target prot opt source
\* destination [/* comment */]" of iptables -L --line-numbers
LineMentions(rule, jump_chain) ==
    StartsWith(rule.t, jump_chain) \/ StartsWith(rule.c, jump_chain)

(***************************************************************************)
(* Firewall manager (firewall.py)                                          *)
(***************************************************************************)
\* _list_chains: the "-N CHAIN" lines of iptables -S
list_chains(tb) == DOMAIN tb \ BuiltinChains

ensure_chain(tb, ch) == IF ch \in list_chains(tb) THEN IptOk(tb) ELSE IptNew(tb, ch)

flush_chain_noop(tb, ch) == tb

\* _flush_chain: a failure is swallowed
flush_chain(tb, ch) == IptFlush(tb, ch).tb

JumpRule(jump_chain) == Rule(<<>>, jump_chain, <<>>)

ensure_jump_first(tb, parent, jump_chain) ==
    IF \E i \in 1..Len(tb[parent]) : NeedleInLine(tb[parent][i], jump_chain)
    THEN IptOk(tb)
    ELSE IptInsertFirst(tb, parent, JumpRule(jump_chain))

\* for n in sorted(to_delete, reverse=True): iptables -D parent n (best effort)
RECURSIVE DeleteDescending(_, _, _, _)
DeleteDescending(tb, parent, to_delete, n) ==
    IF n < 1 THEN tb
    ELSE DeleteDescending(IF n \in to_delete THEN IptDeleteNum(tb, parent, n).tb ELSE tb,
                          parent, to_delete, n - 1)

RECURSIVE DeleteAscending(_, _, _, _, _)
DeleteAscending(tb, parent, to_delete, n, lastnum) ==
    IF n > lastnum THEN tb
    ELSE DeleteAscending(IF n \in to_delete THEN IptDeleteNum(tb, parent, n).tb ELSE tb,
                         parent, to_delete, n + 1, lastnum)

delete_numbers_ascending(tb, parent, to_delete) ==
    DeleteAscending(tb, parent, to_delete, 1, Len(tb[parent]))

delete_numbers(tb, parent, to_delete) ==
    DeleteDescending(tb, parent, to_delete, Len(tb[parent]))

delete_jump(tb, parent, jump_chain) ==
    IF parent \notin DOMAIN tb THEN tb
    ELSE delete_numbers(tb, parent,
                        {i \in 1..Len(tb[parent]) : LineMentions(tb[parent][i], jump_chain)})

\* detect_wan_iface on the first line of `ip route show default`
detect_wan_iface_falls_back(route) == [ok |-> TRUE, iface |-> "eth0", err |-> ""]

\* detect_wan_iface on the first line of `ip route show default`, split
detect_wan_iface(route) ==
    IF route = <<>> THEN [ok |-> FALSE, iface |-> "", err |-> "RuntimeError: no default route"]
    ELSE IF \A i \in 1..Len(route) : route[i] # "dev"
    THEN [ok |-> FALSE, iface |-> "", err |-> "RuntimeError: cannot parse default route"]
    ELSE LET idx == CHOOSE i \in 1..Len(route) :
                       route[i] = "dev" /\ \A j \in 1..(i - 1) : route[j] # "dev"
         IN  IF idx + 1 > Len(route)
             THEN [ok |-> FALSE, iface |-> "", err |-> "RuntimeError: cannot parse WAN iface"]
             ELSE [ok |-> TRUE, iface |-> route[idx + 1], err |-> ""]

UdpRule(port) == Rule(<<"-p", "udp", "--dport", ToString(port)>>, <<"ACCEPT">>, <<>>)

ConntrackRule == Rule(<<"-m", "conntrack", "--ctstate", "RELATED,ESTABLISHED">>, <<"ACCEPT">>, <<>>)

ForwardRule(wg, wan) == Rule(<<"-i", wg, "-o", wan>>, <<"ACCEPT">>, <<>>)

MasqueradeRule(wan) == Rule(<<"-o", wan>>, <<"MASQUERADE">>, <<>>)

FirewallResult(wan, input_udp, fwd, est, masq, notes) ==
    [wan_iface |-> wan, input_udp |-> input_udp, forward_wg_to_wan |-> fwd,
     forward_established |-> est, nat_masquerade |-> masq, notes |-> notes]

NoFirewallResult == FirewallResult("", FALSE, FALSE, FALSE, FALSE, <<>>)

\* the first table of the steps whose command failed, or the last one
FirstFailure(steps) ==
    IF \E i \in 1..Len(steps) : ~steps[i].ok
    THEN steps[CHOOSE i \in 1..Len(steps) : ~steps[i].ok /\ \A j \in 1..(i - 1) : steps[j].ok]
    ELSE steps[Len(steps)]

\* enable_firewall, FILTER part
enable_filter(tb, conntrack, wg, port, wan) ==
    LET t1 == ensure_chain(tb, CH_IN)
        t2 == ensure_chain(t1.tb, CH_FWD)
        t3 == flush_chain(flush_chain(t2.tb, CH_IN), CH_FWD)
        t4 == IptAppend(t3, CH_IN, UdpRule(port))
        t5 == IF conntrack THEN IptAppend(t4.tb, CH_FWD, ConntrackRule) ELSE IptErr(t4.tb)
        t6 == IptAppend(t5.tb, CH_FWD, ForwardRule(wg, wan))
        t7 == ensure_jump_first(t6.tb, INPUT, CH_IN)
        t8 == ensure_jump_first(t7.tb, FORWARD, CH_FWD)
        r  == FirstFailure(<<t1, t2, t4, t6, t7, t8>>)
    IN  [ok |-> r.ok, tb |-> r.tb, established |-> t5.ok]

\* enable_firewall, NAT part (the table is available)
enable_nat(tb, wan) ==
    LET t1 == ensure_chain(tb, CH_NAT)
        t2 == IptAppend(flush_chain(t1.tb, CH_NAT), CH_NAT, MasqueradeRule(wan))
        t3 == ensure_jump_first(t2.tb, POSTROUTING, CH_NAT)
    IN  FirstFailure(<<t1, t2, t3>>)

FwOutcome(ok, err, rs, res) == [ok |-> ok, err |-> err, rules |-> rs, res |-> res]

\* enable_firewall(wg_iface, listen_port, wan_iface); wan_iface "" is None
enable_firewall(rs, e, root, wg, port, wan_iface) ==
    IF ~root THEN FwOutcome(FALSE, "PermissionError", rs, NoFirewallResult)
    ELSE LET d   == IF wan_iface = "" THEN detect_wan_iface(e.route)
                    ELSE [ok |-> TRUE, iface |-> wan_iface, err |-> ""]
         IN
         IF ~d.ok THEN FwOutcome(FALSE, d.err, rs, NoFirewallResult)
         ELSE LET f == enable_filter(rs.filter, e.conntrack, wg, port, d.iface) IN
              IF ~f.ok
              THEN FwOutcome(FALSE, "CommandError", [rs EXCEPT !.filter = f.tb], NoFirewallResult)
              ELSE LET note1 == IF f.established THEN <<>> ELSE <<"conntrack unavailable">>
                   IN
                   IF e.nat
                   THEN LET n == enable_nat(rs.nat, d.iface) IN
                        IF ~n.ok
                        THEN FwOutcome(FALSE, "CommandError",
                                       [filter |-> f.tb, nat |-> n.tb], NoFirewallResult)
                        ELSE FwOutcome(TRUE, "", [filter |-> f.tb, nat |-> n.tb],
                                       FirewallResult(d.iface, TRUE, TRUE, f.established,
                                                      TRUE, note1))
                   ELSE FwOutcome(TRUE, "", [rs EXCEPT !.filter = f.tb],
                                  FirewallResult(d.iface, TRUE, TRUE, f.established, FALSE,
                                                 note1 \o <<"nat table unavailable">>))

\* try: iptables -F ch; iptables -X ch  except Exception: pass
flush_and_delete(tb, ch) ==
    LET f == IptFlush(tb, ch) IN
    IF ~f.ok THEN tb ELSE IptDeleteChain(f.tb, ch).tb

disable_firewall(rs, e, root) ==
    IF ~root THEN FwOutcome(FALSE, "PermissionError", rs, NoFirewallResult)
    ELSE LET f1 == delete_jump(rs.filter, INPUT, CH_IN)
             f2 == delete_jump(f1, FORWARD, CH_FWD)
             f3 == flush_and_delete(flush_and_delete(f2, CH_IN), CH_FWD)
             n1 == IF e.nat
                   THEN flush_and_delete(delete_jump(rs.nat, POSTROUTING, CH_NAT), CH_NAT)
                   ELSE rs.nat
         IN  FwOutcome(TRUE, "", [filter |-> f3, nat |-> n1], NoFirewallResult)

(***************************************************************************)
(* The host of the firewall manager and the calls made on it               *)
(***************************************************************************)
PrivateOf(parent) ==
    IF parent = INPUT THEN CH_IN ELSE IF parent = FORWARD THEN CH_FWD ELSE CH_NAT

TableOf(parent) == IF parent = POSTROUTING THEN "nat" ELSE "filter"

FwArgs(wg, port, wan) == [wg_iface |-> wg, listen_port |-> port, wan_iface |-> wan]

FwCall(op, root, args, rep, had, o) ==
    [op |-> op, root |-> root, args |-> args, rep |-> rep, had |-> had,
     ok |-> o.ok, err |-> o.err, res |-> o.res]

NoFwCall ==
    [op |-> "none", root |-> FALSE, args |-> FwArgs("", 0, ""), rep |-> 0, had |-> FALSE,
     ok |-> FALSE, err |-> "", res |-> NoFirewallResult]

\* the first line of `ip route show default`, split
DefaultRoutes ==
    { <<"default", "via", "192.168.1.1", "dev", "eth0">>,
      <<>>,
      <<"default", "via", "192.168.1.1">>,
      <<"default", "via", "192.168.1.1", "dev">> }

FullHost == [nat |-> TRUE, conntrack |-> TRUE,
             route |-> <<"default", "via", "192.168.1.1", "dev", "eth0">>]

\* a host with every feature, or lacking kernel modules, or lacking a usable route
FwHosts ==
    { [FullHost EXCEPT !.nat = n, !.conntrack = c] : n \in BOOLEAN, c \in BOOLEAN }
    \cup { [FullHost EXCEPT !.route = r] : r \in DefaultRoutes }

ListenPorts == {DefaultListenPort, DefaultListenPort + 1}

\* wan_iface: None (detect it) or given
WanArgs == {"", "eth1"}

EmptyRuleset(e) ==
    [filter |-> [q \in {INPUT, FORWARD} |-> <<>>],
     nat    |-> IF e.nat THEN [q \in {POSTROUTING} |-> <<>>] ELSE <<>>]

\* the rules other tooling may add to the built-in chain `parent`
ForeignKinds == {"ssh", "prefix", "comment", "manual"}

LegacyChain(parent) == PrivateOf(parent) \o <<"_OLD">>

ForeignRule(parent, kind) ==
    CASE kind = "ssh"     -> Rule(<<"-p", "tcp", "--dport", "22">>, <<"ACCEPT">>, <<>>)
      [] kind = "prefix"  -> Rule(<<>>, LegacyChain(parent), <<>>)
      [] kind = "comment" -> Rule(<<"-p", "tcp", "--dport", "443">>, <<"ACCEPT">>,
                                  PrivateOf(parent) \o <<" bypass">>)
      [] kind = "manual"  -> JumpRule(PrivateOf(parent))

InitFw ==
    /\ fwEnv \in FwHosts
    /\ rules = EmptyRuleset(fwEnv)
    /\ fwLast = NoFwCall
    /\ foreign = 0
    /\ pristine = TRUE
    /\ IdlePeers
    /\ IdleApply
    /\ IdleCli

Repeats(op, root, args) ==
    IF fwLast.op = op /\ fwLast.root = root /\ fwLast.args = args THEN fwLast.rep + 1 ELSE 1

EnableFirewall(root, wg, port, wan) ==
    LET args == FwArgs(wg, port, wan)
        o    == enable_firewall(rules, fwEnv, root, wg, port, wan)
    IN  /\ Repeats("enable", root, args) <= MaxRepeat
        /\ rules' = o.rules
        /\ fwLast' = FwCall("enable", root, args, Repeats("enable", root, args),
                            CH_IN \in DOMAIN rules.filter, o)
        /\ UNCHANGED <<fwEnv, foreign, pristine, peerVars, applyVars, cliVars>>

DisableFirewall(root) ==
    LET args == FwArgs(DefaultInterface, DefaultListenPort, "")
        o    == disable_firewall(rules, fwEnv, root)
    IN  /\ Repeats("disable", root, args) <= MaxRepeat
        /\ rules' = o.rules
        /\ fwLast' = FwCall("disable", root, args, Repeats("disable", root, args),
                            CH_IN \in DOMAIN rules.filter, o)
        /\ UNCHANGED <<fwEnv, foreign, pristine, peerVars, applyVars, cliVars>>

\* another tool (or the operator) adds a rule of its own to a built-in chain,
\* creating its own chain first when the rule jumps to it
ForeignAdd(parent, kind, atHead) ==
    LET t    == TableOf(parent)
        rule == ForeignRule(parent, kind)
        tb0  == rules[t]
        tb1  == IF kind = "prefix" THEN ensure_chain(tb0, LegacyChain(parent)).tb ELSE tb0
        r    == IF atHead THEN IptInsertFirst(tb1, parent, rule)
                ELSE IptAppend(tb1, parent, rule)
    IN  /\ foreign < MaxForeign
        /\ parent \in DOMAIN tb0
        /\ r.ok
        /\ rules' = [rules EXCEPT ![t] = r.tb]
        /\ foreign' = foreign + 1
        /\ pristine' = (pristine /\ fwLast.op \in {"none", "foreign"})
        /\ fwLast' = [NoFwCall EXCEPT !.op = "foreign"]
        /\ UNCHANGED <<fwEnv, peerVars, applyVars, cliVars>>

NextFw ==
    \/ \E root \in BOOLEAN, port \in ListenPorts, wan \in WanArgs :
           EnableFirewall(root, DefaultInterface, port, wan)
    \/ \E root \in BOOLEAN : DisableFirewall(root)
    \/ \E parent \in BuiltinChains, kind \in ForeignKinds, atHead \in BOOLEAN :
           ForeignAdd(parent, kind, atHead)

SpecFw == InitFw /\ [][NextFw]_vars

(***************************************************************************)
(* firewall_status (firewall.py), called between enable and disable on     *)
(* hosts that start empty or with the chains of an older deployment        *)
(***************************************************************************)
\* `f"-A {parent} -j {chain}" in rules` on the output of iptables -S
HasJumpLine(tb, parent, chain) ==
    /\ parent \in DOMAIN tb
    /\ \E i \in 1..Len(tb[parent]) : NeedleInLine(tb[parent][i], chain)

\* firewall_status: the summary it returns (the ruleset text is left out)
firewall_status(rs, e) ==
    LET has_chains     == CH_IN \in list_chains(rs.filter) /\ CH_FWD \in list_chains(rs.filter)
        has_jump_input == HasJumpLine(rs.filter, INPUT, CH_IN)
        has_jump_fwd   == HasJumpLine(rs.filter, FORWARD, CH_FWD)
        has_jump_nat   == e.nat /\ HasJumpLine(rs.nat, POSTROUTING, CH_NAT)
        d              == detect_wan_iface(e.route)
    IN  [enabled       |-> has_chains /\ (has_jump_input \/ has_jump_fwd \/ has_jump_nat),
         nat_available |-> e.nat,
         wan_iface     |-> IF d.ok THEN d.iface ELSE "None"]

\* a host on which an older deployment left its chains VPNWG_*_OLD and the
\* jumps to them
LegacyRuleset(e) ==
    [filter |-> (INPUT :> <<JumpRule(LegacyChain(INPUT))>>)
                @@ (FORWARD :> <<JumpRule(LegacyChain(FORWARD))>>)
                @@ (LegacyChain(INPUT) :> <<>>) @@ (LegacyChain(FORWARD) :> <<>>),
     nat    |-> IF e.nat
                THEN (POSTROUTING :> <<JumpRule(LegacyChain(POSTROUTING))>>)
                     @@ (LegacyChain(POSTROUTING) :> <<>>)
                ELSE <<>>]

InitStatus ==
    /\ fwEnv \in FwHosts
    /\ rules \in {EmptyRuleset(fwEnv), LegacyRuleset(fwEnv)}
    /\ fwLast = NoFwCall
    /\ foreign = 0
    /\ pristine = TRUE
    /\ IdlePeers
    /\ IdleApply
    /\ IdleCli

\* status = firewall_status()
FirewallStatus ==
    /\ pure' = [op |-> "firewall_status", out |-> firewall_status(rules, fwEnv)]
    /\ UNCHANGED <<state, alloc, last, scn, keyCtr, applyVars, fwVars, cliVars>>

NextStatus ==
    \/ \E root \in BOOLEAN, port \in ListenPorts, wan \in WanArgs :
           EnableFirewall(root, DefaultInterface, port, wan)
    \/ \E root \in BOOLEAN : DisableFirewall(root)
    \/ FirewallStatus

SpecStatus == InitStatus /\ [][NextStatus]_vars

(***************************************************************************)
(* Diagnostics: doctor (wireguard.py) as run by cmd_doctor (cli.py) on     *)
(* hosts drawn from a bounded set                                          *)
(***************************************************************************)
DoctorCheck(name, ok) == [name |-> name, ok |-> ok]

\* _check_conf_sanity: "[Interface]" in text, a PrivateKey line, an Address line
check_conf_sanity(conf) ==
    DoctorCheck("conf:sanity",
                /\ \E i \in 1..Len(conf) : conf[i].key = "[Interface]"
                /\ \E i \in 1..Len(conf) : conf[i].key = "PrivateKey"
                /\ \E i \in 1..Len(conf) : conf[i].key = "Address")

\* the checks doctor makes only with a state, before _check_interface_state
state_checks(s, e, f) ==
    <<check_conf_sanity(render_server_conf(s)),
      DoctorCheck("fs:server_conf", Exists(f, TargetPath(s.server.interface)))>>

\* doctor(state): the list of checks it returns, or the exception it raises
doctor(has_state, s, e, d, f, dir, up) ==
    LET first == <<DoctorCheck("binary:wg", "wg" \in e.bins),
                   DoctorCheck("binary:wg-quick", "wg-quick" \in e.bins),
                   DoctorCheck("binary:ip", "ip" \in e.bins),
                   DoctorCheck("state:file", d.part # "absent"),
                   DoctorCheck("fs:/etc/wireguard", dir)>>
        rest  == <<DoctorCheck("sysctl:ip_forward", e.ip_forward = "1"),
                   DoctorCheck("hint:root", e.root)>>
    IN  IF ~has_state
        THEN [raised |-> FALSE, err |-> "", checks |-> first \o rest]
        \* link_is_up: run_cmd calls _which("ip") first; nobody catches its error
        ELSE IF "ip" \notin e.bins
        THEN [raised |-> TRUE, err |-> "FileNotFoundError", checks |-> <<>>]
        ELSE [raised |-> FALSE, err |-> "",
              checks |-> first \o state_checks(s, e, f)
                               \o <<DoctorCheck("wg:interface", up)>> \o rest]

\* the hosts doctor is run on
DoctorHosts ==
    [root : BOOLEAN, bins : SUBSET RequiredBins, ip_forward : {"1", "0", ""}]

\* vpn doctor: load_state (any failure: state = None), doctor(state), print
CmdDoctor ==
    /\ pure.op = "none"
    /\ LET l == load_state(disk)
           s == IF l.ok THEN Loaded(disk) ELSE state
       IN  /\ pure' = [op |-> "doctor", with_state |-> l.ok,
                       out |-> doctor(l.ok, s, env, disk, fs, etcDir, link)]
           /\ state' = s
    /\ UNCHANGED <<alloc, last, scn, keyCtr, applyVars, fwVars, cliVars>>

InitDoctor ==
    /\ env \in DoctorHosts
    /\ disk \in {DiskAbsent, Saved(StateV1), DiskFile("partial", NoDoc)}
    /\ fs \in InstalledFiles
    /\ etcDir \in (IF fs = <<>> THEN BOOLEAN ELSE {TRUE})
    /\ link \in BOOLEAN
    /\ cli = CliIdle
    /\ adders = <<>>
    /\ ap = <<>>
    /\ clock = 1
    /\ cmds = <<>>
    /\ host0 = [fs |-> fs, etcDir |-> etcDir, link |-> link]
    /\ IdlePeers
    /\ IdleFw

NextDoctor == CmdDoctor

SpecDoctor == InitDoctor /\ [][NextDoctor]_vars

(***************************************************************************)
(* Properties of the apply pipeline                                        *)
(***************************************************************************)
Range(seq) == {seq[i] : i \in 1..Len(seq)}

IsPrefix(a, b) == Len(a) <= Len(b) /\ SubSeq(b, 1, Len(a)) = a

\* the installed config is the one apply found when it started
TargetUntouched(p) ==
    LET target == TargetPath(Iface(p)) IN
    /\ Exists(fs, target) <=> Exists(host0.fs, target)
    /\ Exists(fs, target) => fs[target] = host0.fs[target]

\* C1: at every point of the install step, a crash between any two of write,
\* chmod and rename included, the installed config path holds the complete
\* previously installed content or the complete newly rendered one, never a
\* partial one; before the rename the previously installed file is unchanged.
C1_InstallIsAtomic ==
    \A p \in DOMAIN ap :
        LET target == TargetPath(Iface(p)) IN
        /\ Exists(fs, target) =>
              \/ Exists(host0.fs, target) /\ fs[target].data = host0.fs[target].data
              \/ fs[target].data = render_server_conf(ap[p].st)
        /\ ~Exists(fs, target) => ~Exists(host0.fs, target)
        /\ "install" \notin Range(ap[p].steps) => TargetUntouched(p)

\* killed inside the write of the temp file: a partial temp file is on disk
\* next to the untouched, different, previously installed config
C1_Witness ==
    \E p \in DOMAIN ap :
        LET target == TargetPath(Iface(p))
            tmp    == TmpPath(target)
        IN  /\ ap[p].pc = "Crashed"
            /\ Exists(fs, tmp)
            /\ 0 < Len(fs[tmp].data) /\ Len(fs[tmp].data) < Len(ap[p].conf)
            /\ Exists(host0.fs, target)
            /\ host0.fs[target].data # ap[p].conf
            /\ fs[target] = host0.fs[target]

\* C2: when validate_state returns a non-empty list, apply_safe fails with a
\* validation error whose message contains every problem of the list, and
\* makes no backup, writes no file or directory and issues no interface
\* command.
C2_InvalidStateIsRefused ==
    \A p \in DOMAIN ap :
        LET errs == validate_state(ap[p].st) IN
        errs # <<>> =>
            /\ ap[p].pc \in {"validate", "Rejected", "Crashed"}
            /\ fs = host0.fs
            /\ etcDir = host0.etcDir
            /\ link = host0.link
            /\ cmds = <<>>
            /\ ap[p].pc = "Rejected" =>
                  /\ ap[p].res.kind = "ValueError"
                  /\ \A i \in 1..Len(errs) : errs[i] \in Range(ap[p].res.msg)

\* a state with two problems was refused on a host with an installed config
C2_Witness ==
    \E p \in DOMAIN ap :
        /\ ap[p].pc = "Rejected"
        /\ Len(validate_state(ap[p].st)) >= 2
        /\ Exists(host0.fs, TargetPath(DefaultInterface))
        /\ ~host0.link

ApplyOrder == <<"validate", "privilege", "backup", "install", "bounce">>

\* C3: apply runs validate, privilege check, backup, atomic install and, only
\* if restart was requested, the bounce, in that order; the previous config is
\* backed up before the target is replaced; Success comes after every
\* requested step.
C3_ApplyStepOrder ==
    \A p \in DOMAIN ap :
        LET target == TargetPath(Iface(p))
            tmp    == TmpPath(target)
            steps  == ap[p].steps
        IN  /\ IsPrefix(steps, ApplyOrder)
            /\ "bounce" \in Range(steps) => ap[p].restart
            /\ ap[p].pc = "Success" =>
                  steps = IF ap[p].restart THEN ApplyOrder ELSE SubSeq(ApplyOrder, 1, 4)
            /\ (etcDir # host0.etcDir \/ fs # host0.fs) => "privilege" \in Range(steps)
            /\ (Exists(fs, tmp) \/ ~TargetUntouched(p)) => "backup" \in Range(steps)
            /\ (~TargetUntouched(p) /\ Exists(host0.fs, target)) =>
                  \E q \in DOMAIN fs :
                      q[2] = ".conf.bak" /\ fs[q].data = host0.fs[target].data
            /\ cmds # <<>> =>
                  /\ "install" \in Range(steps) /\ ap[p].restart
                  /\ fs[target].data = render_server_conf(ap[p].st)

\* a run with restart reached Success over an installed config and a live
\* interface: backup, install, down, up
C3_Witness ==
    \E p \in DOMAIN ap :
        /\ ap[p].pc = "Success"
        /\ ap[p].restart
        /\ host0.link
        /\ Exists(host0.fs, TargetPath(Iface(p)))
        /\ host0.fs[TargetPath(Iface(p))].data # ap[p].conf
        /\ Len(cmds) = 3

\* the wg-quick commands issued so far, in order
WgQuickCmds == SelectSeq(cmds, LAMBDA c : c[1] \in {"wg-quick down", "wg-quick up"})

\* the interface commands of a bounce that finds the interface up or down
BounceExpected(p) ==
    IF ~ap[p].restart THEN <<>>
    ELSE IF host0.link
    THEN << <<"wg-quick down", Iface(p)>>, <<"wg-quick up", Iface(p)>> >>
    ELSE << <<"wg-quick up", Iface(p)>> >>

\* C12: with restart requested, an interface found up is brought down and
\* then up, in that order, and one found down is only brought up; the
\* interface is up when apply returns successfully; without restart apply
\* issues no interface up or down command.
C12_BounceDownThenUp ==
    \A p \in DOMAIN ap :
        /\ IsPrefix(WgQuickCmds, BounceExpected(p))
        /\ ap[p].pc = "Success" =>
              /\ WgQuickCmds = BounceExpected(p)
              /\ ap[p].restart => link
              /\ ~ap[p].restart => link = host0.link

\* C12 case: apply with restart returned successfully on a host whose
\* interface was up: down, then up.
C12_Witness ==
    \E p \in DOMAIN ap :
        /\ ap[p].pc = "Success"
        /\ ap[p].restart
        /\ host0.link
        /\ Len(WgQuickCmds) = 2
        /\ link

\* the bounce of p failed: the run ended in error after the install step
BounceFailed(p) == ap[p].pc = "Failed" /\ "install" \in Range(ap[p].steps)

\* C13: when the bounce fails after the install, apply surfaces the command
\* error and rolls nothing back: the installed path holds the newly rendered
\* config and, if a config was installed before, a backup file holds exactly
\* that previous content.
C13_NoRollbackAfterBounceFailure ==
    \A p \in DOMAIN ap :
        BounceFailed(p) =>
            LET target == TargetPath(Iface(p)) IN
            /\ ap[p].res.kind = "CommandError"
            /\ Exists(fs, target)
            /\ fs[target].data = render_server_conf(ap[p].st)
            /\ Exists(host0.fs, target) =>
                  \E q \in DOMAIN fs :
                      /\ q[1] = Iface(p) /\ q[2] = ".conf.bak"
                      /\ fs[q].data = host0.fs[target].data

\* C13 case: wg-quick failed after a new config replaced a different one.
C13_Witness ==
    \E p \in DOMAIN ap :
        /\ BounceFailed(p)
        /\ Exists(host0.fs, TargetPath(Iface(p)))
        /\ host0.fs[TargetPath(Iface(p))].data # render_server_conf(ap[p].st)
        /\ WgQuickCmds # <<>>

\* C14: a failure of the backup copy (the only source of OSError in
\* apply_safe) never ends apply: no run ends in error with it.
C14_BackupIsBestEffort ==
    \A p \in DOMAIN ap : ap[p].pc = "Failed" => ap[p].res.kind # "OSError"

PrivateChains == {CH_IN, CH_FWD, CH_NAT}

FwTables == {"filter", "nat"}

\* the built-in chains the host has
HostChains == {q \in BuiltinChains : q \in DOMAIN rules[TableOf(q)]}

\* number of rules of the built-in chain `parent` that jump to its private chain
JumpCount(parent) ==
    Cardinality({i \in 1..Len(rules[TableOf(parent)][parent]) :
                    rules[TableOf(parent)][parent][i].t = PrivateOf(parent)})

\* the rules of a chain other than jumps to the three private chains
OtherRules(chain) == SelectSeq(chain, LAMBDA r : r.t \notin PrivateChains)

SecondSameEnable ==
    /\ fwLast.op = "enable" /\ fwLast.ok
    /\ fwLast'.op = "enable" /\ fwLast'.ok
    /\ fwLast'.args = fwLast.args
    /\ fwLast'.rep = fwLast.rep + 1

\* C7: from any host ruleset, a second enable_firewall with the same
\* arguments, directly after a first one, leaves the whole ruleset (private
\* chains, jumps, every other rule) as the first call left it.
C7_EnableTwiceIsOnce == [][SecondSameEnable => rules' = rules]_vars

\* C7 case: enable has succeeded twice in a row on a host where other tooling
\* has rules of its own.
C7_Witness ==
    /\ fwLast.op = "enable" /\ fwLast.ok /\ fwLast.rep >= 2
    /\ foreign > 0
    /\ fwEnv.nat

\* C8: starting from a ruleset with no VPN chains or jumps and with only
\* enable/disable calls acting on it since, no built-in chain ever holds more
\* than one jump to its private chain, and each holds exactly one after a
\* successful enable.
C8_OneJumpPerChain ==
    pristine =>
        /\ \A q \in HostChains : JumpCount(q) <= 1
        /\ (fwLast.op = "enable" /\ fwLast.ok) => \A q \in HostChains : JumpCount(q) = 1

\* C9: after disable_firewall returns, no built-in chain holds a jump to a
\* private chain and no private chain exists, whatever the state before; and
\* a privileged disable never raises.
C9_DisableRemovesEverything ==
    fwLast.op = "disable" =>
        /\ fwLast.root => fwLast.ok
        /\ fwLast.ok =>
            /\ \A q \in HostChains : JumpCount(q) = 0
            /\ \A t \in FwTables : PrivateChains \cap DOMAIN rules[t] = {}

\* C9 case: disable returned on a host that was enabled and where other
\* tooling has rules of its own.
C9_Witness ==
    /\ fwLast.op = "disable" /\ fwLast.ok /\ fwLast.had
    /\ foreign > 0
    /\ fwEnv.nat

\* C10: an enable_firewall or disable_firewall call leaves, in every built-in
\* chain, the rules other than jumps to the three private chains the same and
\* in the same order.
C10_ForeignRulesUntouched ==
    [][ (fwLast' # fwLast /\ fwLast'.op \in {"enable", "disable"}) =>
            \A q \in HostChains :
                OtherRules(rules'[TableOf(q)][q]) = OtherRules(rules[TableOf(q)][q]) ]_vars

\* C11: after every successful enable_firewall, a built-in chain that holds a
\* jump to its private chain has that jump as its first rule.
C11_JumpIsFirst ==
    (fwLast.op = "enable" /\ fwLast.ok) =>
        \A q \in HostChains :
            JumpCount(q) >= 1 => rules[TableOf(q)][q][1] = JumpRule(PrivateOf(q))

(***************************************************************************)
(* Properties of the validator and of the state file                       *)
(***************************************************************************)
\* the problems of peer i that its own fields and the earlier peers call for
PeerFailures(s, i) ==
    LET name == s.peers[i].k
        p    == s.peers[i].v
    IN  (IF name = "" THEN {Problem("peer avec nom vide", name)} ELSE {})
        \cup (IF HasPathToken(name) THEN {Problem("peer name interdit", name)} ELSE {})
        \cup (IF ~Parses(p.ip) THEN {Problem("ip invalide", name)} ELSE {})
        \cup (IF Parses(p.ip) /\ \E j \in 1..(i - 1) : s.peers[j].v.ip = p.ip
              THEN {Problem("IP en doublon", name)} ELSE {})
        \cup (IF Parses(p.ip) /\ Parses(s.network_cidr) /\ ~InNetwork(p.ip.ip, s.network_cidr)
              THEN {Problem("IP hors network_cidr", name)} ELSE {})
        \cup (IF Falsy(p.public_key) THEN {Problem("public_key manquante/vide", name)} ELSE {})
        \cup (IF Falsy(p.private_key) THEN {Problem("private_key manquante/vide", name)} ELSE {})
        \cup (IF p.allowed_ips = <<>> THEN {Problem("allowed_ips vide", name)} ELSE {})

PortInRange(port) == 1 <= port /\ port <= 65535

\* C15: validate_state reports, for every peer, each of its failing checks
\* whatever the other failures of that peer and of the other peers, and
\* reports an out-of-range port together with the peer problems.
C15_AllProblemsCollected ==
    pure.op = "validate" =>
        /\ \A i \in 1..Len(state.peers) :
              \A pr \in PeerFailures(state, i) : pr \in Range(pure.out)
        /\ ~PortInRange(state.server.listen_port) =>
              Problem("server.listen_port invalide", "") \in Range(pure.out)

\* C16: validate_state reports a problem of its own for an empty server
\* interface, private key, public key or address and for a port outside
\* 1..65535.
C16_ServerFieldsChecked ==
    pure.op = "validate" =>
        LET srv == state.server
            out == Range(pure.out)
        IN  /\ BlankName(srv.interface) => Problem("server.interface manquant/vide", "") \in out
            /\ Falsy(srv.private_key) => Problem("server.private_key manquante/vide", "") \in out
            /\ Falsy(srv.public_key) => \E pr \in out : pr[1] = "server.public_key manquante/vide"
            /\ srv.address.txt = "" => Problem("server.address manquante/vide", "") \in out
            /\ ~PortInRange(srv.listen_port) => Problem("server.listen_port invalide", "") \in out

\* C17: loading what save_state wrote gives back the saved state, field for
\* field, None optionals and the peers with their order included.
C17_SaveLoadRoundTrip == pure.op = "load" => pure.out = state

\* C17 case: a valid state with two peers, one with and one without a
\* preshared key, and with endpoint and dns None, was saved and loaded.
C17_Witness ==
    /\ pure.op = "load"
    /\ validate_state(state) = <<>>
    /\ state.server.endpoint = None
    /\ state.server.dns = None
    /\ Len(state.peers) = 2
    /\ state.peers[1].v.preshared_key # None
    /\ state.peers[2].v.preshared_key = None

(***************************************************************************)
(* Properties of the allocator and of peer management                      *)
(***************************************************************************)
\* the addresses of network_cidr that nobody holds and that are not reserved
FreeAddrs(s) ==
    {h \in network_address(s.network_cidr)..broadcast_address(s.network_cidr) :
        /\ h # network_address(s.network_cidr)
        /\ h # broadcast_address(s.network_cidr)
        /\ h # s.server.address.ip
        /\ \A i \in 1..Len(s.peers) : s.peers[i].v.ip.ip # h}

MinOf(S) == CHOOSE x \in S : \A y \in S : x <= y

PeerIps(s) == {s.peers[i].v.ip.ip : i \in 1..Len(s.peers)}

\* C4: whenever network_cidr still has a free host address, allocate_ip returns
\* the numerically lowest address of network_cidr that is neither the server's,
\* nor a peer's, nor the network or broadcast address, formatted as a /32.
C4_AllocateLowestFree ==
    (alloc # NotCalled /\ FreeAddrs(state) # {})
        => alloc = AllocResult(TRUE, "", Cidr(MinOf(FreeAddrs(state)), 32))

\* peers on .2, .3 and .5 of the /24: the allocator answers .4
C4_Witness ==
    /\ state.network_cidr = Cidr(IpamBase, 24)
    /\ state.server.address = Cidr(IpamBase + 1, 24)
    /\ PeerIps(state) = {IpamBase + 2, IpamBase + 3, IpamBase + 5}
    /\ alloc = AllocResult(TRUE, "", Cidr(IpamBase + 4, 32))

\* C5: from a freshly initialised state, after any add_peer / remove_peer
\* sequence a successful add_peer gives the new peer the lowest host address
\* held neither by the server nor by a remaining peer (so a freed address is
\* reused); on 10.8.0.0/24: phone .2, laptop .3, remove phone, tablet .2.
C5_AddReusesLowestFree ==
    /\ (last.op = "add" /\ last.ok) =>
          /\ last.name \in DictKeys(state.peers)
          /\ LET ip == DictVal(state.peers, last.name).ip IN
               /\ ip = last.ip
               /\ ip.txt = "cidr" /\ ip.plen = 32
               /\ InNetwork(ip.ip, state.network_cidr)
               /\ ip.ip \notin {network_address(state.network_cidr),
                                broadcast_address(state.network_cidr),
                                state.server.address.ip}
               /\ \A i \in 1..Len(state.peers) :
                     state.peers[i].k # last.name => state.peers[i].v.ip.ip # ip.ip
               /\ \A h \in FreeAddrs(state) : h > ip.ip
    /\ state.network_cidr = Cidr(IPv4(10, 8, 0, 0), 24) =>
          /\ scn = 1 => DictVal(state.peers, "phone").ip = Cidr(IPv4(10, 8, 0, 2), 32)
          /\ scn = 2 => /\ DictVal(state.peers, "phone").ip = Cidr(IPv4(10, 8, 0, 2), 32)
                        /\ DictVal(state.peers, "laptop").ip = Cidr(IPv4(10, 8, 0, 3), 32)
          /\ scn = 3 => DictKeys(state.peers) = {"laptop"}
          /\ scn = 4 => /\ DictKeys(state.peers) = {"laptop", "tablet"}
                        /\ DictVal(state.peers, "laptop").ip = Cidr(IPv4(10, 8, 0, 3), 32)
                        /\ DictVal(state.peers, "tablet").ip = Cidr(IPv4(10, 8, 0, 2), 32)

\* the scenario has been played to its end on the /24
C5_Witness ==
    /\ state.network_cidr = Cidr(IPv4(10, 8, 0, 0), 24)
    /\ scn = 4
    /\ last.op = "add" /\ last.ok /\ last.name = "tablet"

\* C6: in every state reached from an initialised state by add_peer and
\* remove_peer, every peer address lies inside network_cidr, no two peers have
\* the same address, no peer has the server address, no two peers share a name.
C6_PeerAddressInvariant ==
    /\ \A i \in 1..Len(state.peers) :
          /\ Parses(state.peers[i].v.ip)
          /\ InNetwork(state.peers[i].v.ip.ip, state.network_cidr)
          /\ state.peers[i].v.ip.ip # state.server.address.ip
    /\ \A i, j \in 1..Len(state.peers) :
          i # j => /\ state.peers[i].v.ip.ip # state.peers[j].v.ip.ip
                   /\ state.peers[i].v.name # state.peers[j].v.name
                   /\ state.peers[i].k # state.peers[j].k

\* three peers are present after a removal and a further add
C6_Witness ==
    /\ Len(state.peers) >= 3
    /\ last.op = "add" /\ last.ok
    /\ \E i \in 1..Len(state.peers) :
          state.peers[i].v.ip.ip > state.peers[Len(state.peers)].v.ip.ip

\* an add_peer call has just returned or raised
AddStep ==
    /\ last'.op = "add"
    /\ (state' # state \/ last' # last \/ keyCtr' # keyCtr)

HasPeer(s, name) == \E i \in 1..Len(s.peers) : s.peers[i].k = name

\* every address strictly between the network and the broadcast address of
\* network_cidr is the server's or a peer's
Exhausted(s) ==
    LET net == network_address(s.network_cidr)
        bcast == broadcast_address(s.network_cidr)
        taken == {u \in {s.server.address.ip} \cup PeerIps(s) : net < u /\ u < bcast}
    IN  Cardinality(taken) >= bcast - net - 1

\* C19: when no host address of network_cidr is free, add_peer of a new name
\* fails with the allocator's exhaustion error, adds no peer and generates no
\* key.
C19_ExhaustedAddFails ==
    [][ (AddStep /\ ~HasPeer(state, last'.name) /\ Exhausted(state)) =>
            /\ ~last'.ok
            /\ last'.err = "RuntimeError: No free IP available"
            /\ state' = state
            /\ keyCtr' = keyCtr ]_vars

\* C19 case: add_peer failed on a network whose hosts are all taken by the
\* server and the peers.
C19_Witness ==
    /\ last.op = "add" /\ ~last.ok
    /\ last.err = "RuntimeError: No free IP available"
    /\ FreeAddrs(state) = {}
    /\ Len(state.peers) >= 1
    /\ ~HasPeer(state, last.name)

\* C20: add_peer with a name already present fails with the duplicate error
\* and leaves the state and the key tool untouched; whenever add_peer fails,
\* at whatever step, the peers mapping is unchanged.
C20_FailedAddKeepsPeers ==
    [][ AddStep =>
            /\ HasPeer(state, last'.name) =>
                  /\ ~last'.ok
                  /\ last'.err = "ValueError: already exists"
                  /\ state' = state
                  /\ keyCtr' = keyCtr
            /\ ~last'.ok => state'.peers = state.peers ]_vars

\* C20 case: a second add_peer of a present name was refused while another
\* peer was present too.
C20_Witness ==
    /\ last.op = "add" /\ ~last.ok
    /\ last.err = "ValueError: already exists"
    /\ HasPeer(state, last.name)
    /\ Len(state.peers) >= 2

\* C21: render_client_conf and remove_peer called with a name that is not a
\* key of peers fail with the lookup error (KeyError) and leave the state as
\* it was; render_client_conf returns no text.
C21_UnknownNameFails ==
    [][ /\ (pure'.op = "render_client" /\ ~HasPeer(state, pure'.name)) =>
              /\ ~pure'.out.ok
              /\ pure'.out.err = "KeyError"
              /\ pure'.out.out = <<>>
              /\ state' = state
        /\ (pure'.op = "remove_peer" /\ pure.op = "none" /\ ~HasPeer(state, pure'.name)) =>
              /\ ~last'.ok
              /\ last'.err = "KeyError"
              /\ state' = state ]_vars

\* C21 case: remove_peer of an unknown name was refused on a state that holds
\* other peers.
C21_Witness ==
    /\ pure.op = "remove_peer"
    /\ ~last.ok /\ last.err = "KeyError"
    /\ Len(state.peers) = 2
    /\ ~HasPeer(state, pure.name)

\* C23: without root apply_safe fails with PermissionError, and with wg,
\* wg-quick or ip missing from PATH with the missing-binary error; either way
\* it stops before /etc/wireguard is created and before any backup, temporary
\* or config file is written, and it issues no interface command.
C23_ChecksPrecedeAnyChange ==
    \A p \in DOMAIN ap :
        (~env.root \/ ~({"wg", "wg-quick", "ip"} \subseteq env.bins)) =>
            /\ ap[p].pc \in {"validate", "privilege", "binaries",
                             "Rejected", "Failed", "Crashed"}
            /\ fs = host0.fs
            /\ etcDir = host0.etcDir
            /\ link = host0.link
            /\ cmds = <<>>
            /\ ap[p].pc = "Failed" =>
                  ap[p].res.kind = IF ~env.root THEN "PermissionError"
                                   ELSE "FileNotFoundError"

\* C23 case: root, a config installed, the interface up, and ip missing.
C23_Witness ==
    \E p \in DOMAIN ap :
        /\ ap[p].pc = "Failed"
        /\ ap[p].res.kind = "FileNotFoundError"
        /\ env.root
        /\ env.bins = {"wg", "wg-quick"}
        /\ Exists(host0.fs, TargetPath(Iface(p)))
        /\ host0.link

\* a call of the firewall manager has just returned or raised
FwStep(op) == fwLast'.op = op /\ fwLast' # fwLast

\* the default route is missing, or names no interface after "dev"
NoUsableRoute(route) ==
    ~\E i \in 1..(Len(route) - 1) :
        route[i] = "dev" /\ \A j \in 1..(i - 1) : route[j] # "dev"

DetectionErrors ==
    {"RuntimeError: no default route", "RuntimeError: cannot parse default route",
     "RuntimeError: cannot parse WAN iface"}

\* C24: enable_firewall without root fails with PermissionError; with root,
\* no wan_iface given and a default route that is missing or unparsable it
\* fails with the detection error; disable_firewall without root fails with
\* PermissionError.  In all three cases the ruleset is left as it was.
C24_FirewallRefusalsChangeNothing ==
    [][ /\ (FwStep("enable") /\ ~fwLast'.root) =>
              /\ ~fwLast'.ok
              /\ fwLast'.err = "PermissionError"
              /\ rules' = rules
        /\ (FwStep("enable") /\ fwLast'.root /\ fwLast'.args.wan_iface = ""
                /\ NoUsableRoute(fwEnv.route)) =>
              /\ ~fwLast'.ok
              /\ fwLast'.err \in DetectionErrors
              /\ rules' = rules
        /\ (FwStep("disable") /\ ~fwLast'.root) =>
              /\ ~fwLast'.ok
              /\ fwLast'.err = "PermissionError"
              /\ rules' = rules ]_vars

\* C24 case: the firewall was enabled with an explicit WAN interface, and a
\* later enable that has to detect it fails on the route "default via X dev".
C24_Witness ==
    /\ fwLast.op = "enable" /\ fwLast.root /\ ~fwLast.ok
    /\ fwLast.err = "RuntimeError: cannot parse WAN iface"
    /\ fwLast.had
    /\ rules.filter[INPUT] # <<>>

\* the result of the last enable_firewall reports `note`
Noted(note) == \E i \in 1..Len(fwLast.res.notes) : fwLast.res.notes[i] = note

\* enable_firewall was called with root and with a WAN interface given or
\* detectable
EnableCouldRun ==
    /\ fwLast.op = "enable" /\ fwLast.root
    /\ (fwLast.args.wan_iface = "" => ~NoUsableRoute(fwEnv.route))

\* C25: on a host without connection tracking enable_firewall succeeds,
\* reports forward_established = false with a note, and still appends the
\* wg -> wan accept rule and has both filter jumps in place; on a host without
\* the NAT table it succeeds, reports nat_masquerade = false with a note and
\* creates no NAT chain, masquerade rule or POSTROUTING jump.
C25_EnableDegradesGracefully ==
    EnableCouldRun =>
        /\ ~fwEnv.conntrack =>
              /\ fwLast.ok
              /\ ~fwLast.res.forward_established
              /\ Noted("conntrack unavailable")
              /\ fwLast.res.forward_wg_to_wan
              /\ \E i \in 1..Len(rules.filter[CH_FWD]) :
                    /\ rules.filter[CH_FWD][i].t = <<"ACCEPT">>
                    /\ rules.filter[CH_FWD][i].m =
                          <<"-i", fwLast.args.wg_iface, "-o", fwLast.res.wan_iface>>
              /\ \A i \in 1..Len(rules.filter[CH_FWD]) :
                    rules.filter[CH_FWD][i] # ConntrackRule
              /\ JumpCount(INPUT) >= 1
              /\ JumpCount(FORWARD) >= 1
        /\ ~fwEnv.nat =>
              /\ fwLast.ok
              /\ ~fwLast.res.nat_masquerade
              /\ Noted("nat table unavailable")
              /\ rules.nat = <<>>

\* the same on hosts where no chain has a name that starts with the name of a
\* private chain
C25_WithoutLookalikeChain ==
    (\A q \in {INPUT, FORWARD} : LegacyChain(q) \notin DOMAIN rules.filter)
        => C25_EnableDegradesGracefully

\* firewall_status has just returned
StatusStep == pure'.op = "firewall_status" /\ (pure.op = "firewall_status" => pure' # pure)

\* the three private chains exist on this host (CH_NAT where there is a NAT
\* table) and a built-in chain holds a jump to its private chain
ChainsAndJump ==
    /\ {CH_IN, CH_FWD} \subseteq DOMAIN rules.filter
    /\ fwEnv.nat => CH_NAT \in DOMAIN rules.nat
    /\ \E q \in HostChains : JumpCount(q) >= 1

\* C26: firewall_status reports enabled exactly when the private chains exist
\* and a built-in chain holds a jump to its private chain; so it reports
\* enabled after a successful enable_firewall and not enabled after
\* disable_firewall; it leaves the ruleset as it is.
C26_StatusIsChainsAndJump ==
    [][ StatusStep =>
            /\ pure'.out.enabled <=> ChainsAndJump
            /\ (fwLast.op = "enable" /\ fwLast.ok) => pure'.out.enabled
            /\ (fwLast.op = "disable" /\ fwLast.ok) => ~pure'.out.enabled
            /\ rules' = rules ]_vars

\* the checks of the battery: those made with a state are marked
DoctorBattery ==
    <<"binary:wg", "binary:wg-quick", "binary:ip", "state:file", "fs:/etc/wireguard",
      "conf:sanity", "fs:server_conf", "wg:interface", "sysctl:ip_forward", "hint:root">>

NeedsState(name) == name \in {"conf:sanity", "fs:server_conf", "wg:interface"}

\* C27: whatever checks fail, with or without a loaded state and whatever
\* binaries are missing, doctor does not raise and returns one result for
\* each check of the battery that applies to its input; it leaves the state
\* file and the system as they are.
C27_DoctorRunsEveryCheck ==
    pure.op = "doctor" =>
        /\ ~pure.out.raised
        /\ \A i \in 1..Len(DoctorBattery) :
              (pure.with_state \/ ~NeedsState(DoctorBattery[i])) =>
                  Cardinality({j \in 1..Len(pure.out.checks) :
                                  pure.out.checks[j].name = DoctorBattery[i]}) = 1
        /\ fs = host0.fs /\ etcDir = host0.etcDir /\ link = host0.link

\* the same on hosts where ip is installed or no state could be loaded
C27_WithIpOrWithoutState ==
    ("ip" \in env.bins \/ (pure.op = "doctor" /\ ~pure.with_state))
        => C27_DoctorRunsEveryCheck

(***************************************************************************)
(* Properties of the command line and of the state file                    *)
(***************************************************************************)
\* the names of the peers in a complete state file
SavedNames(d) == {Loaded(d).peers[i].k : i \in 1..Len(Loaded(d).peers)}

BadName(name) == name = "" \/ HasPathToken(name)

\* C22: whenever add-peer has saved the state, no peer name in the state file
\* is empty or contains "/", "\" or "..": an add-peer with such a name is
\* never saved.
C22_SavedNamesAreSafe ==
    (cli.cmd = "add-peer" /\ cli.pc = "exited" /\ cli.exit = 0 /\ disk.part = "complete")
        => \A name \in SavedNames(disk) : ~BadName(name)

\* C28: when save_state is interrupted, at whatever point, the state file is
\* the complete one found when the command started (none, if there was none)
\* or the complete new one, never an empty or partial document.
C28_SaveIsAtomic ==
    cli.pc = "killed" => (disk = cli.prev \/ disk = Saved(state))

\* the same for an interruption before the file is opened for writing
C28_BeforeOpen ==
    [][ (cli.pc = "save_open" /\ cli'.pc = "killed") => disk' = cli.prev ]_vars

\* C29: a command that has ended exits with code 1 when its core operation
\* raised an error (an unknown peer name given to remove-peer, export-peer,
\* show-peer or generate-qr included) and with code 0 otherwise.
C29_ExitCodeTellsFailure ==
    cli.pc = "exited" =>
        /\ cli.exit \in {0, 1}
        /\ cli.exit = 1 <=> cli.err # ""

\* the same for the errors the handlers do not catch themselves
C29_UncaughtErrors ==
    (cli.pc = "exited" /\ cli.err # "KeyError") =>
        /\ cli.exit \in {0, 1}
        /\ cli.exit = 1 <=> cli.err # ""

\* C30: in a state for which validate_state returns no problem, the peers'
\* host addresses are pairwise distinct whatever their prefix lengths, none is
\* the server's host address, and each lies inside network_cidr.
C30_ValidStateHasDistinctAddresses ==
    (pure.op = "validate" /\ pure.out = <<>>) =>
        /\ \A i, j \in 1..Len(state.peers) :
              i # j => state.peers[i].v.ip.ip # state.peers[j].v.ip.ip
        /\ \A i \in 1..Len(state.peers) :
              /\ state.peers[i].v.ip.ip # state.server.address.ip
              /\ InNetwork(state.peers[i].v.ip.ip, state.network_cidr)

\* what validate_state does guarantee: addresses written identically are
\* distinct and each lies inside network_cidr
C30_DistinctAsWritten ==
    (pure.op = "validate" /\ pure.out = <<>>) =>
        /\ \A i, j \in 1..Len(state.peers) :
              i # j => state.peers[i].v.ip # state.peers[j].v.ip
        /\ \A i \in 1..Len(state.peers) :
              InNetwork(state.peers[i].v.ip.ip, state.network_cidr)

\* the files of /etc/wireguard that hold the configuration process p rendered
\* (the temporary file or the installed one) or a backup copy
HoldsConfig(p, q) ==
    \/ ap[p].conf # <<>> /\ fs[q].data = ap[p].conf
    \/ q[2] = ".conf.bak" /\ fs[q].data # <<>>

\* C31: at every step of apply, every file that holds the newly rendered
\* server configuration or a backup copy (temporary file, installed
\* configuration, timestamped backup) is readable and writable by its owner
\* only.
C31_ConfigFilesAreOwnerOnly ==
    \A p \in DOMAIN ap : \A q \in DOMAIN fs :
        HoldsConfig(p, q) => fs[q].mode = "0600"

\* what the install does guarantee: the text reaches the target path only in
\* a file already restricted to its owner
C31_TargetIsOwnerOnly ==
    \A p \in DOMAIN ap :
        Exists(fs, TargetPath(Iface(p))) => fs[TargetPath(Iface(p))].mode = "0600"

\* the state holds the server on the first host address of its network, with
\* the network's prefix length, and the peer added first on the second one
FirstHostLayout ==
    LET net == state.network_cidr IN
      /\ state.server.address.ip = network_address(net) + 1
      /\ state.server.address.plen = net.plen
      /\ InNetwork(state.server.address.ip, net)
      /\ scn = 1 => state.peers[1].v.ip.ip = network_address(net) + 2

\* C32: for every network_cidr passed to init_server, the server address of
\* the created state is the first host address of that network with the
\* network's prefix length, so it lies inside network_cidr and the first peer
\* added afterwards receives the second host address.
C32_ServerTakesFirstHost == FirstHostLayout

\* the layout holds for the network the literal address was written for
C32_DefaultNetwork ==
    state.network_cidr = Cidr(IPv4(10, 8, 0, 0), 24) => FirstHostLayout

\* the texts the target path may hold while the two processes run: what was
\* installed before, or the complete rendering of either state
WholeTexts ==
    {render_server_conf(ap[p].st) : p \in DOMAIN ap}
        \cup (IF Exists(host0.fs, TargetPath(DefaultInterface))
              THEN {host0.fs[TargetPath(DefaultInterface)].data} ELSE {})

\* C33: when two apply invocations for the same interface interleave at the
\* granularity of their file steps (write temp, chmod, rename), the installed
\* path always holds the complete rendering of one of the two states, never a
\* mixture or a truncated file, and neither invocation fails because of the
\* other (no file step finds its temporary file gone).
C33_RacingAppliesInstallWhole ==
    /\ Exists(fs, TargetPath(DefaultInterface)) =>
          fs[TargetPath(DefaultInterface)].data \in WholeTexts
    /\ \A p \in DOMAIN ap :
          ap[p].pc = "Failed" => ap[p].res.kind # "FileNotFoundError"

\* the installed path holds an incomplete text only while the process whose
\* open truncated it has not yet written its own
C33_TruncatedUntilLateWrite ==
    (Exists(fs, TargetPath(DefaultInterface)) /\
        fs[TargetPath(DefaultInterface)].data \notin WholeTexts)
    => \E q \in DOMAIN ap :
          ap[q].pc = "write_tmp" /\ ap[q].fd = TargetPath(DefaultInterface)

\* the processes whose add-peer reported success
Added == {p \in DOMAIN adders : adders[p].pc = "exited" /\ adders[p].exit = 0}

\* the persisted state holds every peer whose add reported success, and the
\* addresses handed out are pairwise distinct
BothKept ==
    /\ load_state(disk).ok
    /\ \A p \in Added : adders[p].name \in DictKeys(Loaded(disk).peers)
    /\ \A p, q \in Added : p # q => adders[p].ip.ip # adders[q].ip.ip
    /\ \A i, j \in 1..Len(Loaded(disk).peers) :
          i # j => Loaded(disk).peers[i].v.ip.ip # Loaded(disk).peers[j].v.ip.ip

\* C34: when two add-peer invocations for different names (each: load the
\* state file, add_peer, save the state file) interleave, the persisted state
\* ends with both peers present and with distinct addresses; no peer whose
\* add reported success is lost and no address is assigned twice.
C34_ConcurrentAddsKeepBoth ==
    (\A p \in DOMAIN adders : adders[p].pc = "exited") => BothKept

\* C34 as amended: when two add-peer invocations for different names run one
\* after the other (the second loads the state file after the first has
\* returned), the persisted state holds every peer whose add reported success
\* and the addresses are pairwise distinct.
C34_OneAfterTheOther ==
    (\A p \in DOMAIN adders : adders[p].pc = "exited" /\ adders[p].alone) => BothKept

\* both invocations ran one after the other and succeeded; the second found a
\* peer already in the file it loaded
C34_Witness ==
    /\ \A p \in DOMAIN adders :
          adders[p].pc = "exited" /\ adders[p].alone /\ adders[p].exit = 0
    /\ Len(Loaded(disk).peers) = 3
    /\ adders[1].ip # adders[2].ip

====
